---------------------------- MODULE Spec2Model ----------------------------
(***************************************************************************)
(* A model of the Looker -> Dataplex scripts: the catalog entry writer     *)
(* (ingest_views_only.py, ingest_explores_only.py,                         *)
(* ingest_dashboards_only.py), the relationship linker                     *)
(* (create_structural_links.py) and the lineage client and driver          *)
(* (dataplex_lineage_api.py).                                              *)
(*                                                                         *)
(* Text is modelled as a sequence of tokens: the separators ":", ".", "-"  *)
(* and "/" are tokens of their own and every other token is a run of       *)
(* characters holding no separator, so that split and replace act on the   *)
(* model as they act on the text.                                          *)
(***************************************************************************)
EXTENDS Integers, Sequences, FiniteSets, TLC

VARIABLES
    catalog,    \* the Dataplex entry group: entry id -> entry, for the entries that exist
    tmpFiles,   \* the temporary aspect files present on the local disk
    prev,       \* the call of create_dataplex_entry_with_aspects before the last one
    last,       \* the last call of create_dataplex_entry_with_aspects
    ext,        \* the last call of a LookML extractor: the text read and what it returned
    race,       \* two entry writers running at the same time: their positions and locals
    lk,         \* the relationship linker's main(): its position and its locals
    links,      \* the entry links of the entry group, in the order of their creation
    lcall,      \* the last call of create_entry_link
    pid,        \* the process id generator: its arguments and the ids it gave
    lsvc,       \* the Data Lineage service: its processes, runs and events
    lin,        \* the lineage driver's main(): its position and its locals
    pcalls      \* the last two calls of DataLineageAPI.create_process

vars == <<catalog, tmpFiles, prev, last, ext, race, lk, links, lcall, pid, lsvc, lin, pcalls>>

ingestVars == <<tmpFiles, prev, last, ext, race>>
linkerVars == <<lk, links, lcall>>
lineageVars == <<lsvc, lin, pcalls>>

\* No call made yet
NoCall == [fn |-> "none"]

\* A script that is not running
Idle == [pc |-> "idle"]

\* No id generated yet
NoIds == <<>>

\* A Data Lineage service without processes; next numbers the ids the
\* service gives
EmptyService == [processes |-> <<>>, runs |-> <<>>, events |-> <<>>, next |-> 1]

\* The parts of the state a specification leaves alone
IngestUnused == tmpFiles = {} /\ prev = NoCall /\ last = NoCall /\ ext = NoCall /\ race = Idle
LinkerUnused == lk = Idle /\ links = <<>> /\ lcall = NoCall
ProcessIdUnused == pid = [ids |-> NoIds]
LineageUnused == lsvc = EmptyService /\ lin = Idle /\ pcalls = <<NoCall, NoCall>>

---------------------------------------------------------------------------
(* Text helpers                                                            *)

\* s.replace(a, b) for single-token a and b
Replace(s, a, b) == [i \in DOMAIN s |-> IF s[i] = a THEN b ELSE s[i]]

\* sep in s
Contains(s, sep) == \E i \in DOMAIN s : s[i] = sep

\* s.split(sep)[-1]: what follows the last sep (all of s when it holds none)
SplitLast(s, sep) ==
    LET at == {i \in DOMAIN s : s[i] = sep}
        from == IF at = {} THEN 0 ELSE CHOOSE i \in at : \A j \in at : j <= i
    IN  SubSeq(s, from + 1, Len(s))

---------------------------------------------------------------------------
(* Configuration (config.py)                                               *)

LOOKER_INSTANCE_ID == "mylooker"
PROJECT_ID == "my_project"

---------------------------------------------------------------------------
(* Fully-qualified names                                                   *)

\* generate_custom_fqn for an instance id of any text
generate_custom_fqn_of(entity_type, instance_id, model_name, view_name) ==
    IF entity_type = "view"
    THEN <<"custom", ":", "looker", ".", "view", ":">>
             \o instance_id \o <<".", model_name, ".", view_name>>
    ELSE <<>>

generate_custom_fqn(entity_type, instance_id, model_name, view_name) ==
    generate_custom_fqn_of(entity_type, <<instance_id>>, model_name, view_name)

\* generate_looker_fqn in a script whose LOOKER_INSTANCE_ID is instance_id
generate_looker_fqn_of(instance_id, entity_type, folder_id, entity_id) ==
    IF entity_type \in {"dashboard", "explore", "look"}
    THEN <<"looker", ":", entity_type, ":">> \o instance_id \o <<".", folder_id, ".", entity_id>>
    ELSE <<"custom", ":", "looker", ".", entity_type, ":">> \o instance_id \o <<".", entity_id>>

generate_looker_fqn(entity_type, folder_id, entity_id) ==
    generate_looker_fqn_of(<<LOOKER_INSTANCE_ID>>, entity_type, folder_id, entity_id)

\* What the ingestion drivers pass to the entry writer: a view and an
\* explore of the same name (ingest_views_only.py, ingest_explores_only.py)
\* and a dashboard (ingest_dashboards_only.py).
IngestCalls ==
    { [fqn |-> generate_custom_fqn("view", LOOKER_INSTANCE_ID, "retail_banking", "account"),
       entry_type |-> <<"looker", "-", "view">>],
      [fqn |-> generate_looker_fqn("explore", "retail_banking", "account"),
       entry_type |-> <<"looker", "-", "explore">>],
      [fqn |-> generate_looker_fqn("dashboard", "retail_banking", "customer_account"),
       entry_type |-> <<"looker", "-", "dashboard">>] }

\* Two aspect payloads (aspect_data)
AspectData == {"aspects_a", "aspects_b"}

---------------------------------------------------------------------------
(* The gcloud CLI and the catalog behind it                                *)

\* What can go wrong with one subprocess.run of gcloud: nothing; a non-zero
\* exit for a reason of the environment (CalledProcessError); no gcloud
\* executable (FileNotFoundError).
Faults == {"none", "exit_nonzero", "no_cli"}

Exists(cat, entry_id) == entry_id \in DOMAIN cat

\* gcloud dataplex entries describe: exit 0 when the entry exists
DescribeOutcome(cat, entry_id, fault) ==
    CASE fault = "no_cli" -> "FileNotFoundError"
      [] fault = "exit_nonzero" -> "CalledProcessError"
      [] OTHER -> IF Exists(cat, entry_id) THEN "ok" ELSE "CalledProcessError"

\* A create command that takes the place of an existing entry
CreateOutcome_Overwrites(cat, entry_id, fault) ==
    CASE fault = "no_cli" -> "FileNotFoundError"
      [] fault = "exit_nonzero" -> "CalledProcessError"
      [] OTHER -> "ok"

\* gcloud dataplex entries create: exit 0 when the entry was created; an
\* existing entry is refused (ALREADY_EXISTS)
CreateOutcome(cat, entry_id, fault) ==
    CASE fault = "no_cli" -> "FileNotFoundError"
      [] fault = "exit_nonzero" -> "CalledProcessError"
      [] OTHER -> IF Exists(cat, entry_id) THEN "CalledProcessError" ELSE "ok"

CatalogAfterCreate(cat, entry_id, entry) ==
    [i \in DOMAIN cat \cup {entry_id} |-> IF i = entry_id THEN entry ELSE cat[i]]

---------------------------------------------------------------------------
(* The entry writer                                                        *)

\* "Extract entry ID from FQN for gcloud command"
EntryIdOf(entry_fqn) ==
    IF Contains(entry_fqn, ":")
    THEN Replace(SplitLast(entry_fqn, ":"), ".", "-")
    ELSE Replace(entry_fqn, ".", "-")

\* entry_exists without its "return True": the answer is never true
entry_exists_NoReturnTrue(outcome) ==
    CASE outcome = "ok" -> "False"
      [] outcome = "CalledProcessError" -> "False"
      [] OTHER -> outcome

\* entry_exists: True on exit 0, False on CalledProcessError; any other
\* exception of subprocess.run leaves the function
entry_exists(outcome) ==
    CASE outcome = "ok" -> "True"
      [] outcome = "CalledProcessError" -> "False"
      [] OTHER -> outcome

\* run_gcloud_command: stdout on exit 0, None on CalledProcessError; any
\* other exception of subprocess.run leaves the function
run_gcloud_command(outcome) ==
    CASE outcome = "ok" -> "stdout"
      [] outcome = "CalledProcessError" -> "None"
      [] OTHER -> outcome

\* formatted_aspects: each aspect payload under its project.location key
FormattedAspects(aspect_data) == <<PROJECT_ID, "eu", aspect_data>>

\* tempfile.NamedTemporaryFile(delete=False) with the payload dumped into it
WriteTmp(tmp, tmp_file_name) == tmp \cup {tmp_file_name}

\* A routine whose finally clause leaves the file where it is
RemoveTmp_Keeps(tmp, tmp_file_name) == tmp

\* finally: os.remove(tmp_file_name)
RemoveTmp(tmp, tmp_file_name) == tmp \ {tmp_file_name}

\* The writer without its early return: an existing entry is created again
AfterDescribe_NoSkip(exists) ==
    CASE exists = "True" -> "create"
      [] exists = "False" -> "create"
      [] OTHER -> "raise"

\* "if entry_exists(entry_id): ... return True": what the writer does with
\* the answer of entry_exists
AfterDescribe(exists) ==
    CASE exists = "True" -> "skip"
      [] exists = "False" -> "create"
      [] OTHER -> "raise"

\* "try: result = run_gcloud_command(...); success = result is not None;
\* return success; except Exception: return False"
CreateResult(result) ==
    CASE result = "stdout" -> "True"
      [] result = "None" -> "False"
      [] OTHER -> "False"

\* One call create_dataplex_entry_with_aspects(entry_fqn, entry_type,
\* aspect_data) against catalog cat, with dfault and cfault what goes wrong
\* with its describe and its create command. The result: the external
\* operations it made (ops), what it returned or the exception that left it
\* (result), the catalog and the temporary files it leaves.
create_dataplex_entry_with_aspects(cat, tmp, entry_fqn, entry_type, aspect_data, dfault, cfault) ==
    LET entry_id == EntryIdOf(entry_fqn)
        exists == entry_exists(DescribeOutcome(cat, entry_id, dfault))
        todo == AfterDescribe(exists)
        tmp_file_name == "tmp.json"
        outcome == CreateOutcome(cat, entry_id, cfault)
    IN  [call |-> [fn |-> "create_dataplex_entry_with_aspects",
                   fqn |-> entry_fqn,
                   aspects |-> aspect_data,
                   absent |-> ~Exists(cat, entry_id),
                   dfault |-> dfault,
                   cfault |-> IF todo = "create" THEN cfault ELSE "unused",
                   ops |-> IF todo = "create"
                           THEN <<"describe", "write_tmp", "create", "remove_tmp">>
                           ELSE <<"describe">>,
                   result |-> CASE todo = "skip" -> "True"
                                [] todo = "raise" -> exists
                                [] OTHER -> CreateResult(run_gcloud_command(outcome))],
         catalog |-> IF todo = "create" /\ outcome = "ok"
                     THEN CatalogAfterCreate(cat, entry_id,
                              [fqn |-> entry_fqn, entry_type |-> entry_type,
                               aspects |-> FormattedAspects(aspect_data)])
                     ELSE cat,
         tmpFiles |-> IF todo = "create"
                      THEN RemoveTmp(WriteTmp(tmp, tmp_file_name), tmp_file_name)
                      ELSE tmp]

---------------------------------------------------------------------------
(* The entry writer's specification                                        *)

Init ==
    /\ catalog = <<>>
    /\ tmpFiles = {}
    /\ prev = NoCall
    /\ last = NoCall
    /\ ext = NoCall
    /\ race = Idle
    /\ LinkerUnused
    /\ ProcessIdUnused
    /\ LineageUnused

\* The faults to draw for the create command of a call: it runs only when
\* entry_exists answered False
CreateFaults(cat, entry_fqn, dfault) ==
    IF AfterDescribe(entry_exists(DescribeOutcome(cat, EntryIdOf(entry_fqn), dfault))) = "create"
    THEN Faults
    ELSE {"none"}

\* An ingestion driver calls the entry writer once
CreateEntry ==
    \E c \in IngestCalls, a \in AspectData, dfault \in Faults :
        \E cfault \in CreateFaults(catalog, c.fqn, dfault) :
            LET r == create_dataplex_entry_with_aspects(catalog, tmpFiles, c.fqn,
                                                        c.entry_type, a, dfault, cfault)
            IN  /\ catalog' = r.catalog
                /\ tmpFiles' = r.tmpFiles
                /\ prev' = last
                /\ last' = r.call
                /\ UNCHANGED <<ext, race, linkerVars, pid, lineageVars>>

Next == CreateEntry

Spec == Init /\ [][Next]_vars

---------------------------------------------------------------------------
(* Claims about the entry writer                                           *)

IsCall(c) == c.fn = "create_dataplex_entry_with_aspects"

CreateCalls(c) == Cardinality({i \in DOMAIN c.ops : c.ops[i] = "create"})

\* The first of two calls in sequence found the entry absent and created it
FirstCreated == IsCall(prev) /\ prev.absent /\ CreateCalls(prev) = 1 /\ prev.result = "True"

\* The second call is for the same fully-qualified name and its describe
\* command is answered by the catalog
SecondSame == IsCall(last) /\ last.fqn = prev.fqn /\ last.dfault = "none"

\* C1: two calls in sequence with the same fully-qualified name, the
\* catalog lacking the entry and the first create succeeding, make exactly
\* one create call in total, and the second call skips and returns True.
C1_IdempotentCreate ==
    (FirstCreated /\ SecondSame) =>
        /\ last.ops = <<"describe">>
        /\ last.result = "True"
        /\ CreateCalls(prev) + CreateCalls(last) = 1

C1_Witness == FirstCreated /\ SecondSame /\ last.aspects # prev.aspects

\* C9: the entry writer never raises: whatever the describe and the create
\* command do, it returns True (created or already there) or False.
C9_NeverRaises ==
    IsCall(last) =>
        /\ last.result \in {"True", "False"}
        /\ last.result = "True" <=>
               \/ ~last.absent /\ last.dfault = "none"
               \/ last.absent /\ CreateCalls(last) = 1 /\ last.cfault = "none"

\* C10: when the describe command succeeds, the writer makes no create
\* call, writes no temporary file and leaves the catalog as it was,
\* whatever the aspect payload.
C10_ExistingNeverMutated ==
    [][(IsCall(last') /\
        DescribeOutcome(catalog, EntryIdOf(last'.fqn), last'.dfault) = "ok")
          => /\ last'.ops = <<"describe">>
             /\ catalog' = catalog
             /\ tmpFiles' = tmpFiles]_vars

C10_Witness ==
    /\ IsCall(last)
    /\ ~last.absent
    /\ last.dfault = "none"
    /\ last.result = "True"
    /\ catalog[EntryIdOf(last.fqn)].aspects # FormattedAspects(last.aspects)
    /\ catalog[EntryIdOf(last.fqn)].fqn # last.fqn

---------------------------------------------------------------------------
(* The relationship linker (create_structural_links.py)                    *)

\* sub in s
HasSub(s, sub) ==
    \E i \in 0..(Len(s) - Len(sub)) : SubSeq(s, i + 1, i + Len(sub)) = sub

\* The resource name of an entry and of an entry type, as entries list
\* prints them
EntryName(entry_id) ==
    <<"projects", "/", PROJECT_ID, "/", "locations", "/", "eu", "/",
      "entryGroups", "/", "looker", "/", "entries", "/">> \o entry_id

EntryTypeName(entry_type) ==
    <<"projects", "/", PROJECT_ID, "/", "locations", "/", "eu", "/",
      "entryTypes", "/">> \o entry_type

\* gcloud dataplex entries list --format=json: exit 0 with the entries of
\* the group, exit 0 with text that is no JSON, a non-zero exit, or no
\* gcloud executable
ListOutcomes == {"ok", "bad_json", "exit_nonzero", "no_cli"}

ListedEntries(cat) ==
    { [name |-> EntryName(id),
       entryType |-> EntryTypeName(cat[id].entry_type),
       fullyQualifiedName |-> cat[id].fqn] : id \in DOMAIN cat }

\* get_existing_entries: the parsed entries, [] when the command failed or
\* its output does not parse; an exception other than CalledProcessError
\* leaves the function
get_existing_entries(cat, outcome) ==
    CASE outcome = "ok" -> [raised |-> FALSE, entries |-> ListedEntries(cat)]
      [] outcome = "no_cli" -> [raised |-> TRUE, entries |-> {}]
      [] OTHER -> [raised |-> FALSE, entries |-> {}]

LookerDashboard == <<"looker", "-", "dashboard">>
LookerExplore == <<"looker", "-", "explore">>
LookerView == <<"looker", "-", "view">>

ParsedEntry(entry) ==
    [id |-> SplitLast(entry.name, "/"), fqn |-> entry.fullyQualifiedName]

\* Three independent ifs in the place of the if / elif / elif chain
parse_entries_by_type_NoElif(entries) ==
    [dashboards |-> {ParsedEntry(e) : e \in {x \in entries : HasSub(x.entryType, LookerDashboard)}},
     explores |-> {ParsedEntry(e) : e \in {x \in entries : HasSub(x.entryType, LookerExplore)}},
     views |-> {ParsedEntry(e) : e \in {x \in entries : HasSub(x.entryType, LookerView)}}]

\* parse_entries_by_type: the if / elif / elif chain over entryType
parse_entries_by_type(entries) ==
    LET isD(e) == HasSub(e.entryType, LookerDashboard)
        isE(e) == ~isD(e) /\ HasSub(e.entryType, LookerExplore)
        isV(e) == ~isD(e) /\ ~isE(e) /\ HasSub(e.entryType, LookerView)
    IN  [dashboards |-> {ParsedEntry(e) : e \in {x \in entries : isD(x)}},
         explores |-> {ParsedEntry(e) : e \in {x \in entries : isE(x)}},
         views |-> {ParsedEntry(e) : e \in {x \in entries : isV(x)}}]

\* verify_entry_exists that answers True whatever describe says
verify_entry_exists_AlwaysTrue(result) ==
    CASE result = "stdout" -> "True"
      [] result = "None" -> "True"
      [] OTHER -> result

\* verify_entry_exists: "result is not None" of the describe command run
\* with ignore_errors=True
verify_entry_exists(result) ==
    CASE result = "stdout" -> "True"
      [] result = "None" -> "False"
      [] OTHER -> result

\* gcloud auth print-access-token: a token, exit 0 with nothing printed, a
\* non-zero exit, or no gcloud executable
TokenOutcomes == {"ok", "empty", "exit_nonzero", "no_cli"}

\* get_access_token: stdout stripped, None on CalledProcessError
get_access_token(outcome) ==
    CASE outcome = "ok" -> "token"
      [] outcome = "empty" -> ""
      [] outcome = "exit_nonzero" -> "None"
      [] OTHER -> "FileNotFoundError"

\* entry_link_type_mapping.get(link_type, ".../related")
entry_link_type(link_type) ==
    CASE link_type = "uses" -> "related"
      [] link_type = "maps_to" -> "definition"
      [] link_type = "related" -> "related"
      [] link_type = "definition" -> "definition"
      [] OTHER -> "related"

\* What requests.post can bring back: the link created (200), the link id
\* taken (409), a refusal (403), a server error (500), no response at all
PostOutcomes(lks) ==
    {"200", "403", "500", "RequestException"}
        \cup (IF lks = <<>> THEN {} ELSE {"409"})

\* entry_link_id = "link-" + uuid4().hex[:8]: the id of an existing link
\* when the server answers 409, a fresh one otherwise. Fresh ids are
\* numbered in the order of creation.
NewLinkId(lks, status) == IF status = "409" THEN Len(lks) ELSE Len(lks) + 1

\* The entry links after a POST answered with status
LinksAfterPost(lks, status, entry_link_id, link_type, source_entry_id, target_entry_id) ==
    IF status = "200"
    THEN Append(lks, [id |-> entry_link_id,
                      entryLinkType |-> entry_link_type(link_type),
                      source |-> source_entry_id,
                      target |-> target_entry_id])
    ELSE lks

\* The status check that takes 200 alone for a success
StatusResult_Only200(status) ==
    IF status = "200" THEN "True" ELSE "False"

\* "if response.status_code == 200: return True; elif ... == 409: return
\* True; else: return False; except requests.RequestException: return False"
StatusResult(status) ==
    IF status \in {"200", "409"} THEN "True" ELSE "False"

\* The early returns that report a missing endpoint as a success
EarlyReturn_MissingIsTrue(answer) ==
    CASE answer \in {"False", "None", ""} -> "True"
      [] OTHER -> answer

\* "if not verify_entry_exists(...): return False" and "if not
\* access_token: return False"; an exception leaves create_entry_link
EarlyReturn(answer) ==
    CASE answer \in {"False", "None", ""} -> "False"
      [] OTHER -> answer

\* One call create_entry_link(source_entry_id, target_entry_id, link_type)
\* against catalog cat and entry links lks; env is what the environment
\* does to its two describe commands (ds, dt), its token command (tok) and
\* its POST (post). The result: the external operations it made with what
\* each brought back (ops), what it returned or the exception that left
\* it (result), and the entry links it leaves.
create_entry_link(cat, lks, source_entry_id, target_entry_id, link_type, env) ==
    LET src == verify_entry_exists(run_gcloud_command(
                   DescribeOutcome(cat, source_entry_id, env.ds)))
        tgt == verify_entry_exists(run_gcloud_command(
                   DescribeOutcome(cat, target_entry_id, env.dt)))
        access_token == get_access_token(env.tok)
        entry_link_id == NewLinkId(lks, env.post)
        all == << [op |-> "describe", id |-> source_entry_id, out |-> src],
                  [op |-> "describe", id |-> target_entry_id, out |-> tgt],
                  [op |-> "token", id |-> <<>>, out |-> access_token],
                  [op |-> "post", id |-> <<>>, out |-> env.post] >>
        stage == CASE src # "True" -> 1
                   [] tgt # "True" -> 2
                   [] access_token # "token" -> 3
                   [] OTHER -> 4
    IN  [call |-> [fn |-> "create_entry_link",
                   source |-> source_entry_id,
                   target |-> target_entry_id,
                   link_type |-> link_type,
                   ops |-> SubSeq(all, 1, stage),
                   result |-> IF stage = 4
                              THEN StatusResult(env.post)
                              ELSE EarlyReturn(all[stage].out)],
         links |-> IF stage = 4
                   THEN LinksAfterPost(lks, env.post, entry_link_id, link_type,
                                       source_entry_id, target_entry_id)
                   ELSE lks]

\* What the environment can do to one call of create_entry_link; an
\* operation the call does not reach has its plain outcome
LinkEnvs(cat, lks, source_entry_id, target_entry_id) ==
    { env \in [ds : Faults, dt : Faults, tok : TokenOutcomes, post : PostOutcomes(lks)] :
        LET n == Len(create_entry_link(cat, lks, source_entry_id, target_entry_id,
                                       "uses", env).call.ops)
        IN  /\ n < 2 => env.dt = "none"
            /\ n < 3 => env.tok = "ok"
            /\ n < 4 => env.post = "200" }

\* The relationship tables, cut down to a few of their rows; a row is a
\* parent and its dependents, in the order of the dictionary
LookerId(name) == <<"mylooker", "-", "retail_banking", "-", name>>

dashboard_explore_relationships ==
    << [parent |-> LookerId("customer_account"),
        dependents |-> <<LookerId("account"), LookerId("card_transactions")>>] >>

explore_view_relationships ==
    << [parent |-> LookerId("account"),
        dependents |-> <<LookerId("district"), LookerId("loan")>>],
       [parent |-> LookerId("branches"),
        dependents |-> <<LookerId("district")>>] >>

view_table_mappings ==
    << [view_name |-> "account",
        table_path |-> <<PROJECT_ID, ".", "retail_banking", ".", "account">>],
       [view_name |-> "district",
        table_path |-> <<PROJECT_ID, ".", "retail_banking", ".", "district">>] >>

\* The pairs the two nested for loops go through, in their order
RECURSIVE Pairs(_)
Pairs(table) ==
    IF table = <<>> THEN <<>>
    ELSE [i \in 1..Len(Head(table).dependents) |->
             <<Head(table).parent, Head(table).dependents[i]>>]
         \o Pairs(Tail(table))

\* view_id = f"{LOOKER_INSTANCE_ID}-retail_banking-{view_name}"
ViewId(instance_id, view_name) == instance_id \o <<"-", "retail_banking", "-", view_name>>

\* The pairs of create_view_to_bigquery_links: view_id and bq_entry_id
ViewPairs(table) ==
    [i \in 1..Len(table) |->
        << ViewId(<<LOOKER_INSTANCE_ID>>, table[i].view_name),
           Replace(table[i].table_path, ".", "-") >>]

Ids(entries) == {e.id : e \in entries}

\* The loop that looks at the parent only
SkipPair_ParentOnly(parent_map, dependent_map, pair) ==
    pair[1] \notin parent_map

\* "if dashboard_id not in dashboard_map: continue" and "if explore_id not
\* in explore_map: continue" (the same with explores and views)
SkipPair(parent_map, dependent_map, pair) ==
    \/ pair[1] \notin parent_map
    \/ pair[2] \notin dependent_map

LinkFunctions == {"d2e", "e2v", "v2bq"}

\* main(): the function it calls after fn, from its three if statements
RECURSIVE NextFunction(_, _)
NextFunction(fn, l) ==
    CASE fn = "main" ->
           IF l.dashboards # {} /\ l.explores # {} THEN "d2e" ELSE NextFunction("d2e", l)
      [] fn = "d2e" ->
           IF l.explores # {} /\ l.views # {} THEN "e2v" ELSE NextFunction("e2v", l)
      [] fn = "e2v" ->
           IF l.views # {} THEN "v2bq" ELSE "done"
      [] OTHER -> "done"

---------------------------------------------------------------------------
(* The relationship linker's specification                                 *)

\* The entries an entry group can hold when the linker starts: Looker
\* entries the ingestion drivers write and a BigQuery table entry
LinkerEntries ==
    { [id |-> LookerId("customer_account"), entry_type |-> LookerDashboard,
       fqn |-> generate_looker_fqn("dashboard", "retail_banking", "customer_account")],
      [id |-> LookerId("account"), entry_type |-> LookerExplore,
       fqn |-> generate_looker_fqn("explore", "retail_banking", "account")],
      [id |-> LookerId("branches"), entry_type |-> LookerExplore,
       fqn |-> generate_looker_fqn("explore", "retail_banking", "branches")],
      [id |-> LookerId("district"), entry_type |-> LookerView,
       fqn |-> generate_custom_fqn("view", LOOKER_INSTANCE_ID, "retail_banking", "district")],
      [id |-> LookerId("loan"), entry_type |-> LookerView,
       fqn |-> generate_custom_fqn("view", LOOKER_INSTANCE_ID, "retail_banking", "loan")],
      [id |-> <<PROJECT_ID, "-", "retail_banking", "-", "district">>,
       entry_type |-> <<"bigquery", "-", "table">>,
       fqn |-> <<"bigquery", ":", PROJECT_ID, ".", "retail_banking", ".", "district">>] }

CatalogOf(entries) ==
    [id \in Ids(entries) |->
        LET e == CHOOSE x \in entries : x.id = id
        IN  [fqn |-> e.fqn, entry_type |-> e.entry_type,
             aspects |-> FormattedAspects("aspects_a")]]

LinkerCatalogs == {CatalogOf(entries) : entries \in SUBSET LinkerEntries}

\* What a link function returned: nothing before it returned, its
\* links_created after
NotCalled == <<>>

\* main() at its start; run tells the first execution of the script from a
\* second one, first is the entry links the first execution left

LinkerStart ==
    [pc |-> "start", dashboards |-> {}, explores |-> {}, views |-> {},
     i |-> 1, links_created |-> 0, total_links |-> 0, attempted |-> {},
     ret |-> [fn \in LinkFunctions |-> NotCalled],
     run |-> "first", first |-> <<>>]

InitLinker ==
    /\ catalog \in LinkerCatalogs
    /\ IngestUnused
    /\ ProcessIdUnused
    /\ LineageUnused
    /\ lk = LinkerStart
    /\ links = <<>>
    /\ lcall = NoCall

\* main() up to its first link function: the entries are listed and parted
\* by type; without entries main returns
LinkerMain ==
    /\ lk.pc = "start"
    /\ \E outcome \in ListOutcomes :
          LET r == get_existing_entries(catalog, outcome)
              l == parse_entries_by_type(r.entries)
          IN  lk' = IF r.raised THEN [lk EXCEPT !.pc = "raised"]
                    ELSE IF r.entries = {} THEN [lk EXCEPT !.pc = "done"]
                    ELSE [lk EXCEPT !.pc = NextFunction("main", l),
                                    !.dashboards = l.dashboards,
                                    !.explores = l.explores,
                                    !.views = l.views]
    /\ UNCHANGED <<catalog, ingestVars, links, lcall, pid, lineageVars>>

\* One call of create_entry_link from the loop of fn, and what the loop
\* does with its answer
LinkPair(fn, pair, link_type) ==
    \E env \in LinkEnvs(catalog, links, pair[1], pair[2]) :
        LET r == create_entry_link(catalog, links, pair[1], pair[2], link_type, env)
            attempted == lk.attempted \cup {[fn |-> fn, source |-> pair[1], target |-> pair[2]]}
        IN  /\ lcall' = r.call
            /\ links' = r.links
            /\ lk' = CASE r.call.result = "True" ->
                            [lk EXCEPT !.i = @ + 1, !.links_created = @ + 1,
                                       !.attempted = attempted]
                       [] r.call.result = "False" ->
                            [lk EXCEPT !.i = @ + 1, !.attempted = attempted]
                       [] OTHER ->
                            [lk EXCEPT !.pc = "raised", !.attempted = attempted]

\* One turn of the loops of create_dashboard_to_explore_links
DashboardToExploreStep ==
    LET pairs == Pairs(dashboard_explore_relationships)
    IN  /\ lk.pc = "d2e"
        /\ lk.i <= Len(pairs)
        /\ IF SkipPair(Ids(lk.dashboards), Ids(lk.explores), pairs[lk.i])
           THEN /\ lk' = [lk EXCEPT !.i = @ + 1]
                /\ UNCHANGED <<links, lcall>>
           ELSE LinkPair("d2e", pairs[lk.i], "uses")
        /\ UNCHANGED <<catalog, ingestVars, pid, lineageVars>>

\* One turn of the loops of create_explore_to_view_links
ExploreToViewStep ==
    LET pairs == Pairs(explore_view_relationships)
    IN  /\ lk.pc = "e2v"
        /\ lk.i <= Len(pairs)
        /\ IF SkipPair(Ids(lk.explores), Ids(lk.views), pairs[lk.i])
           THEN /\ lk' = [lk EXCEPT !.i = @ + 1]
                /\ UNCHANGED <<links, lcall>>
           ELSE LinkPair("e2v", pairs[lk.i], "uses")
        /\ UNCHANGED <<catalog, ingestVars, pid, lineageVars>>

\* One turn of the loop of create_view_to_bigquery_links
ViewToBigQueryStep ==
    LET pairs == ViewPairs(view_table_mappings)
    IN  /\ lk.pc = "v2bq"
        /\ lk.i <= Len(pairs)
        /\ IF pairs[lk.i][1] \notin Ids(lk.views)
           THEN /\ lk' = [lk EXCEPT !.i = @ + 1]
                /\ UNCHANGED <<links, lcall>>
           ELSE LinkPair("v2bq", pairs[lk.i], "maps_to")
        /\ UNCHANGED <<catalog, ingestVars, pid, lineageVars>>

LoopLength(fn) ==
    CASE fn = "d2e" -> Len(Pairs(dashboard_explore_relationships))
      [] fn = "e2v" -> Len(Pairs(explore_view_relationships))
      [] OTHER -> Len(ViewPairs(view_table_mappings))

\* A link function returns links_created and main adds it to total_links
LinkFunctionReturn ==
    /\ lk.pc \in LinkFunctions
    /\ lk.i > LoopLength(lk.pc)
    /\ lk' = [lk EXCEPT !.pc = NextFunction(lk.pc, lk),
                        !.i = 1,
                        !.links_created = 0,
                        !.total_links = @ + lk.links_created,
                        !.ret[lk.pc] = <<lk.links_created>>]
    /\ UNCHANGED <<catalog, ingestVars, links, lcall, pid, lineageVars>>

NextLinker ==
    \/ LinkerMain
    \/ DashboardToExploreStep
    \/ ExploreToViewStep
    \/ ViewToBigQueryStep
    \/ LinkFunctionReturn

SpecLinker == InitLinker /\ [][NextLinker]_vars

---------------------------------------------------------------------------
(* Claims about the relationship linker                                    *)

IsLinkCall(c) == c.fn = "create_entry_link"

OpsOf(c, op) == {i \in DOMAIN c.ops : c.ops[i].op = op}

EndpointAbsent(c) == ~Exists(catalog, c.source) \/ ~Exists(catalog, c.target)

\* C2 as the specification states it: with the source or the target entry
\* absent from the catalog, create_entry_link asks for no token, sends no
\* POST and reports success.
C2_AbsentEndpointReportsSuccess ==
    (IsLinkCall(lcall) /\ EndpointAbsent(lcall)) =>
        /\ OpsOf(lcall, "token") = {}
        /\ OpsOf(lcall, "post") = {}
        /\ lcall.result = "True"

\* C2, amended: with the source or the target entry absent from the
\* catalog, create_entry_link asks for no token, sends no POST and does not
\* report success: it returns False, unless gcloud cannot be run at all and
\* the exception leaves it.
C2_AbsentEndpointReturnsFalse ==
    (IsLinkCall(lcall) /\ EndpointAbsent(lcall)) =>
        /\ OpsOf(lcall, "token") = {}
        /\ OpsOf(lcall, "post") = {}
        /\ lcall.result # "True"
        /\ lcall.result = "False" <=>
               \A i \in DOMAIN lcall.ops : lcall.ops[i].out # "FileNotFoundError"

C2_Witness ==
    /\ IsLinkCall(lcall)
    /\ Exists(catalog, lcall.source)
    /\ ~Exists(catalog, lcall.target)
    /\ Len(lcall.ops) = 2
    /\ lcall.result = "False"
    /\ lk.pc = "v2bq"
    /\ lk.links_created = 0

\* C3: a POST is sent only after the describe of the source and the
\* describe of the target have both succeeded in the same call, in that
\* order; no POST is sent for a pair with a missing endpoint.
C3_PostAfterBothDescribes ==
    IsLinkCall(lcall) =>
        \A p \in OpsOf(lcall, "post") :
            /\ \E s, t \in 1..(p - 1) :
                  /\ s < t
                  /\ lcall.ops[s] = [op |-> "describe", id |-> lcall.source, out |-> "True"]
                  /\ lcall.ops[t] = [op |-> "describe", id |-> lcall.target, out |-> "True"]
            /\ Exists(catalog, lcall.source)
            /\ Exists(catalog, lcall.target)

C3_Witness ==
    /\ IsLinkCall(lcall)
    /\ OpsOf(lcall, "post") # {}
    /\ lcall.source # lcall.target
    /\ lcall.result = "True"

TokenObtained(c) == \E i \in OpsOf(c, "token") : c.ops[i].out = "token"

\* C4: with both endpoints there and a token obtained, create_entry_link
\* sends exactly one POST and returns True exactly when the status is 200
\* or 409; any other status and a request exception give False.
C4_OnePostTrueIff200Or409 ==
    (IsLinkCall(lcall) /\ TokenObtained(lcall)) =>
        /\ Cardinality(OpsOf(lcall, "post")) = 1
        /\ \A p \in OpsOf(lcall, "post") :
              /\ lcall.ops[p].out \in {"200", "409"} => lcall.result = "True"
              /\ lcall.ops[p].out \notin {"200", "409"} => lcall.result = "False"

C4_Witness ==
    /\ IsLinkCall(lcall)
    /\ TokenObtained(lcall)
    /\ lcall.ops[4].out = "409"
    /\ lcall.result = "True"
    /\ lk.links_created = 2

C4_WitnessFailure ==
    /\ IsLinkCall(lcall)
    /\ TokenObtained(lcall)
    /\ lcall.ops[4].out = "500"
    /\ lcall.result = "False"

\* The listed parents and dependents of a link function
ParentsOf(fn) == IF fn = "d2e" THEN Ids(lk.dashboards) ELSE Ids(lk.explores)
DependentsOf(fn) == IF fn = "d2e" THEN Ids(lk.explores) ELSE Ids(lk.views)
TableOf(fn) ==
    IF fn = "d2e" THEN Pairs(dashboard_explore_relationships)
    ELSE Pairs(explore_view_relationships)

Listed(fn, pair) == pair[1] \in ParentsOf(fn) /\ pair[2] \in DependentsOf(fn)

\* C5: in create_dashboard_to_explore_links and
\* create_explore_to_view_links no link is attempted for a pair whose
\* parent is not among the listed parents or whose dependent is not among
\* the listed dependents, and a function of which every pair is so left
\* out returns 0.
C5_UnlistedPairsNotAttempted ==
    lk.pc \notin {"idle", "start"} =>
        \A fn \in {"d2e", "e2v"} :
            /\ \A a \in lk.attempted :
                  a.fn = fn => Listed(fn, <<a.source, a.target>>)
            /\ (\A i \in DOMAIN TableOf(fn) : ~Listed(fn, TableOf(fn)[i]))
                   => /\ lk.ret[fn] \in {NotCalled, <<0>>}
                      /\ lk.pc = fn => lk.links_created = 0

\* create_explore_to_view_links returned 0 with a listed explore of its
\* table, none of whose views is listed
C5_Witness ==
    /\ lk.pc \notin {"idle", "start"}
    /\ lk.ret["e2v"] = <<0>>
    /\ LookerId("branches") \in Ids(lk.explores)
    /\ LookerId("loan") \in Ids(lk.views)
    /\ \A i \in DOMAIN TableOf("e2v") : ~Listed("e2v", TableOf("e2v")[i])

---------------------------------------------------------------------------
(* MD5 (hashlib.md5), on 32-bit words held as <<high, low>> 16-bit halves  *)

And4 ==
    [a \in 0..15 |-> [b \in 0..15 |->
        ((a % 2) * (b % 2)) + 2 * (((a \div 2) % 2) * ((b \div 2) % 2))
        + 4 * (((a \div 4) % 2) * ((b \div 4) % 2)) + 8 * ((a \div 8) * (b \div 8))]]

And16(a, b) ==
    And4[a % 16][b % 16] + 16 * And4[(a \div 16) % 16][(b \div 16) % 16]
    + 256 * And4[(a \div 256) % 16][(b \div 256) % 16]
    + 4096 * And4[a \div 4096][b \div 4096]

Xor16(a, b) == a + b - 2 * And16(a, b)
Or16(a, b) == a + b - And16(a, b)
Not16(a) == 65535 - a

W32And(x, y) == <<And16(x[1], y[1]), And16(x[2], y[2])>>
W32Or(x, y) == <<Or16(x[1], y[1]), Or16(x[2], y[2])>>
W32Xor(x, y) == <<Xor16(x[1], y[1]), Xor16(x[2], y[2])>>
W32Not(x) == <<Not16(x[1]), Not16(x[2])>>
W32Add(x, y) ==
    LET lo == x[2] + y[2]
    IN  <<(x[1] + y[1] + (lo \div 65536)) % 65536, lo % 65536>>

Pow2 == <<2, 4, 8, 16, 32, 64, 128, 256, 512, 1024, 2048, 4096, 8192, 16384, 32768>>

W32RotL(x, s) ==
    LET y == IF s >= 16 THEN <<x[2], x[1]>> ELSE x
        r == s % 16
    IN  IF r = 0 THEN y
        ELSE <<((y[1] * Pow2[r]) % 65536) + (y[2] \div Pow2[16 - r]),
               ((y[2] * Pow2[r]) % 65536) + (y[1] \div Pow2[16 - r])>>

MD5_K == <<
    <<55146, 42104>>, <<59591, 46934>>, <<9248, 28891>>, <<49597, 52974>>,
    <<62844, 4015>>, <<18311, 50730>>, <<43056, 17939>>, <<64838, 38145>>,
    <<27008, 39128>>, <<35652, 63407>>, <<65535, 23473>>, <<35164, 55230>>,
    <<27536, 4386>>, <<64920, 29075>>, <<42617, 17294>>, <<18868, 2081>>,
    <<63006, 9570>>, <<49216, 45888>>, <<9822, 23121>>, <<59830, 51114>>,
    <<54831, 4189>>, <<580, 5203>>, <<55457, 59009>>, <<59347, 64456>>,
    <<8673, 52710>>, <<49975, 2006>>, <<62677, 3463>>, <<17754, 5357>>,
    <<43491, 59653>>, <<64751, 41976>>, <<26479, 729>>, <<36138, 19594>>,
    <<65530, 14658>>, <<34673, 63105>>, <<28061, 24866>>, <<64997, 14348>>,
    <<42174, 59972>>, <<19422, 53161>>, <<63163, 19296>>, <<48831, 48240>>,
    <<10395, 32454>>, <<60065, 10234>>, <<54511, 12421>>, <<1160, 7429>>,
    <<55764, 53305>>, <<59099, 39397>>, <<8098, 31992>>, <<50348, 22117>>,
    <<62505, 8772>>, <<17194, 65431>>, <<43924, 9127>>, <<64659, 41017>>,
    <<25947, 22979>>, <<36620, 52370>>, <<65519, 62589>>, <<34180, 24017>>,
    <<28584, 32335>>, <<65068, 59104>>, <<41729, 17172>>, <<19976, 4513>>,
    <<63315, 32386>>, <<48442, 62005>>, <<10967, 53947>>, <<60294, 54161>> >>

MD5_S == <<
    7, 12, 17, 22, 7, 12, 17, 22, 7, 12, 17, 22, 7, 12, 17, 22,
    5, 9, 14, 20, 5, 9, 14, 20, 5, 9, 14, 20, 5, 9, 14, 20,
    4, 11, 16, 23, 4, 11, 16, 23, 4, 11, 16, 23, 4, 11, 16, 23,
    6, 10, 15, 21, 6, 10, 15, 21, 6, 10, 15, 21, 6, 10, 15, 21 >>

MD5Pad(msg) ==
    LET n == Len(msg)
        total == ((n + 8) \div 64 + 1) * 64
        bits == 8 * n
    IN  [i \in 1..total |->
            IF i <= n THEN msg[i]
            ELSE IF i = n + 1 THEN 128
            ELSE IF i = total - 7 THEN bits % 256
            ELSE IF i = total - 6 THEN (bits \div 256) % 256
            ELSE IF i = total - 5 THEN (bits \div 65536) % 256
            ELSE 0]

MD5Word(p, blk, j) ==
    LET o == 64 * blk + 4 * j
    IN  <<p[o + 3] + 256 * p[o + 4], p[o + 1] + 256 * p[o + 2]>>

\* F(v) with e evaluated once, whatever the number of places F uses it in
Bind(e, F(_)) == CHOOSE r \in {F(v) : v \in {e}} : TRUE

MD5F(s) ==
    IF s[5] < 16 THEN W32Or(W32And(s[2], s[3]), W32And(W32Not(s[2]), s[4]))
    ELSE IF s[5] < 32 THEN W32Or(W32And(s[4], s[2]), W32And(W32Not(s[4]), s[3]))
    ELSE IF s[5] < 48 THEN W32Xor(s[2], W32Xor(s[3], s[4]))
    ELSE W32Xor(s[3], W32Or(s[2], W32Not(s[4])))

MD5G(i) ==
    IF i < 16 THEN i
    ELSE IF i < 32 THEN (5 * i + 1) % 16
    ELSE IF i < 48 THEN (3 * i + 5) % 16
    ELSE (7 * i) % 16

\* One of the 64 operations on the state st = <<a, b, c, d, i>>
MD5Step(st, p, blk) ==
    Bind(st, LAMBDA s :
        Bind(MD5F(s), LAMBDA f :
            Bind(W32Add(W32Add(s[1], f),
                        W32Add(MD5_K[s[5] + 1], MD5Word(p, blk, MD5G(s[5])))), LAMBDA t :
                <<s[4], W32Add(s[2], W32RotL(t, MD5_S[s[5] + 1])), s[2], s[3], s[5] + 1>>)))

\* n operations in a row, n a power of two
RECURSIVE MD5Steps(_, _, _, _)
MD5Steps(st, p, blk, n) ==
    IF n = 1 THEN MD5Step(st, p, blk)
    ELSE Bind(MD5Steps(st, p, blk, n \div 2), LAMBDA half :
             MD5Steps(half, p, blk, n \div 2))

MD5Block(h, p, blk) ==
    Bind(MD5Steps(<<h[1], h[2], h[3], h[4], 0>>, p, blk, 64), LAMBDA r :
        <<W32Add(h[1], r[1]), W32Add(h[2], r[2]),
          W32Add(h[3], r[3]), W32Add(h[4], r[4]), blk + 1>>)

RECURSIVE MD5Blocks(_, _)
MD5Blocks(h0, p) ==
    Bind(h0, LAMBDA h :
        IF 64 * h[5] = Len(p) THEN h ELSE MD5Blocks(MD5Block(h, p, h[5]), p))

MD5_INIT == << <<26437, 8961>>, <<61389, 43913>>, <<39098, 56574>>, <<4146, 21622>>, 0 >>

W32Hex(x) ==
    << (x[2] % 256) \div 16, x[2] % 16, x[2] \div 4096, (x[2] \div 256) % 16,
       (x[1] % 256) \div 16, x[1] % 16, x[1] \div 4096, (x[1] \div 256) % 16 >>

MD5HexDigest(msg) ==
    Bind(msg, LAMBDA m :
        Bind(MD5Pad(m), LAMBDA p :
            Bind(MD5Blocks(MD5_INIT, p), LAMBDA st :
                W32Hex(st[1]) \o W32Hex(st[2]) \o W32Hex(st[3]) \o W32Hex(st[4]))))

---------------------------------------------------------------------------
(* Deterministic process ids (dataplex_lineage_api.py)                     *)
(* Text that is hashed is held one character per token.                    *)

\* str.encode(): the UTF-8 byte of a character
Ord(c) ==
    CASE c = " " -> 32
      [] c = "-" -> 45
      [] c = "0" -> 48
      [] c = "1" -> 49
      [] c = "2" -> 50
      [] c = "3" -> 51
      [] c = "4" -> 52
      [] c = "5" -> 53
      [] c = "6" -> 54
      [] c = "7" -> 55
      [] c = "8" -> 56
      [] c = "9" -> 57
      [] c = ":" -> 58
      [] c = "B" -> 66
      [] c = "D" -> 68
      [] c = "E" -> 69
      [] c = "L" -> 76
      [] c = "Q" -> 81
      [] c = "V" -> 86
      [] c = "_" -> 95
      [] c = "a" -> 97
      [] c = "b" -> 98
      [] c = "c" -> 99
      [] c = "d" -> 100
      [] c = "e" -> 101
      [] c = "f" -> 102
      [] c = "g" -> 103
      [] c = "h" -> 104
      [] c = "i" -> 105
      [] c = "k" -> 107
      [] c = "l" -> 108
      [] c = "m" -> 109
      [] c = "n" -> 110
      [] c = "o" -> 111
      [] c = "p" -> 112
      [] c = "q" -> 113
      [] c = "r" -> 114
      [] c = "s" -> 115
      [] c = "t" -> 116
      [] c = "u" -> 117
      [] c = "v" -> 118
      [] c = "w" -> 119
      [] c = "x" -> 120
      [] c = "y" -> 121
      [] c = "z" -> 122

HexDigits == <<"0", "1", "2", "3", "4", "5", "6", "7", "8", "9", "a", "b", "c", "d", "e", "f">>

\* hashlib.md5(content.encode()).hexdigest()
hexdigest(content) ==
    Bind(MD5HexDigest([i \in DOMAIN content |-> Ord(content[i])]), LAMBDA digest :
        [i \in DOMAIN digest |-> HexDigits[digest[i] + 1]])

view_transformation == <<"v", "i", "e", "w", "_", "t", "r", "a", "n", "s", "f", "o", "r", "m", "a", "t", "i", "o", "n">>
explore_transformation == <<"e", "x", "p", "l", "o", "r", "e", "_", "t", "r", "a", "n", "s", "f", "o", "r", "m", "a", "t", "i", "o", "n">>
dashboard_visualization == <<"d", "a", "s", "h", "b", "o", "a", "r", "d", "_", "v", "i", "s", "u", "a", "l", "i", "z", "a", "t", "i", "o", "n">>

\* type_prefix = {...}.get(transformation_type, "transform")
type_prefix(transformation_type) ==
    CASE transformation_type = view_transformation -> <<"b", "q", "-", "v", "i", "e", "w">>
      [] transformation_type = explore_transformation -> <<"v", "i", "e", "w", "-", "e", "x", "p", "l", "o", "r", "e">>
      [] transformation_type = dashboard_visualization -> <<"e", "x", "p", "l", "o", "r", "e", "-", "d", "a", "s", "h">>
      [] OTHER -> <<"t", "r", "a", "n", "s", "f", "o", "r", "m">>

\* An id generator that leaves the transformation type out
generate_deterministic_process_id_IgnoresType(display_name, transformation_type) ==
    <<"t", "r", "a", "n", "s", "f", "o", "r", "m">> \o <<"-">> \o SubSeq(hexdigest(display_name), 1, 8)

generate_deterministic_process_id(display_name, transformation_type) ==
    LET content == display_name \o <<":">> \o transformation_type
        hash_hex == hexdigest(content)
    IN  type_prefix(transformation_type) \o <<"-">> \o SubSeq(hash_hex, 1, 8)

\* The display names the lineage driver gives its processes
BigQueryToLookerView(view_name) == <<"B", "i", "g", "Q", "u", "e", "r", "y", " ", "t", "o", " ", "L", "o", "o", "k", "e", "r", " ", "V", "i", "e", "w", ":", " ">> \o view_name
ViewsToLookerExplore(explore_name) == <<"V", "i", "e", "w", "s", " ", "t", "o", " ", "L", "o", "o", "k", "e", "r", " ", "E", "x", "p", "l", "o", "r", "e", ":", " ">> \o explore_name
ExploreToDashboard(explore_name, dashboard_name) ==
    <<"E", "x", "p", "l", "o", "r", "e", " ", "t", "o", " ", "D", "a", "s", "h", "b", "o", "a", "r", "d", ":", " ">> \o explore_name \o <<" ", "t", "o", " ">> \o dashboard_name

card == <<"c", "a", "r", "d">>
client == <<"c", "l", "i", "e", "n", "t">>
card_transactions == <<"c", "a", "r", "d", "_", "t", "r", "a", "n", "s", "a", "c", "t", "i", "o", "n", "s">>
customer_account == <<"c", "u", "s", "t", "o", "m", "e", "r", "_", "a", "c", "c", "o", "u", "n", "t">>

DisplayNames ==
    { BigQueryToLookerView(card),
      ViewsToLookerExplore(card_transactions),
      ExploreToDashboard(card_transactions, customer_account) }

\* The three transformation types of the driver and three others
TransformationTypes ==
    { view_transformation, explore_transformation, dashboard_visualization,
      <<"c", "u", "s", "t", "o", "m", "_", "1", "5", "9", "8", "0">>,
      <<"c", "u", "s", "t", "o", "m", "_", "4", "5", "8", "6", "5">>,
      <<"c", "u", "s", "t", "o", "m", "_", "7", "0", "7", "2">> }

KnownTypes == {view_transformation, explore_transformation, dashboard_visualization}

---------------------------------------------------------------------------
(* The id generator's specification                                        *)

InitProcessId ==
    /\ catalog = <<>>
    /\ IngestUnused
    /\ LinkerUnused
    /\ LineageUnused
    /\ \E d \in DisplayNames, t1 \in TransformationTypes, t2 \in TransformationTypes :
          pid = [display_name |-> d, type1 |-> t1, type2 |-> t2, ids |-> NoIds]

\* Three calls of the generator: with type1, with type2, and with type1
\* again
GenerateIds ==
    /\ pid.ids = NoIds
    /\ pid' = [pid EXCEPT !.ids =
                 << generate_deterministic_process_id(pid.display_name, pid.type1),
                    generate_deterministic_process_id(pid.display_name, pid.type2),
                    generate_deterministic_process_id(pid.display_name, pid.type1) >>]
    /\ UNCHANGED <<catalog, ingestVars, linkerVars, lineageVars>>

NextProcessId == GenerateIds

SpecProcessId == InitProcessId /\ [][NextProcessId]_vars

---------------------------------------------------------------------------
(* Claims about the id generator                                           *)

Generated == pid.ids # NoIds

\* C6 as the specification states it: identical arguments give an
\* identical id, and the same display name with two different
\* transformation types gives two different ids, whatever the types.
C6_DifferentTypesDifferentIds ==
    Generated =>
        /\ pid.ids[3] = pid.ids[1]
        /\ pid.type1 # pid.type2 => pid.ids[1] # pid.ids[2]

\* C6, amended: identical arguments give an identical id; the same display
\* name with two different transformation types gives two different ids
\* when one of the types is among the three known ones, and otherwise (both
\* types get the prefix "transform") exactly when the first eight digits of
\* the two MD5 digests differ.
C6_IdsDifferUpToTruncatedDigest ==
    Generated =>
        /\ pid.ids[3] = pid.ids[1]
        /\ pid.type1 # pid.type2 =>
              IF pid.type1 \in KnownTypes \/ pid.type2 \in KnownTypes
              THEN pid.ids[1] # pid.ids[2]
              ELSE pid.ids[1] = pid.ids[2] <=>
                       SubSeq(hexdigest(pid.display_name \o <<":">> \o pid.type1), 1, 8)
                         = SubSeq(hexdigest(pid.display_name \o <<":">> \o pid.type2), 1, 8)

\* Two unknown types, the same prefix, two different ids
C6_Witness ==
    /\ Generated
    /\ pid.type1 # pid.type2
    /\ pid.type1 \notin KnownTypes
    /\ pid.type2 \notin KnownTypes
    /\ SubSeq(pid.ids[1], 1, 10) = SubSeq(pid.ids[2], 1, 10)
    /\ pid.ids[1] # pid.ids[2]

\* The three known types with one display name: three different ids
C6_WitnessKnown ==
    /\ Generated
    /\ pid.type1 = view_transformation
    /\ pid.type2 = dashboard_visualization
    /\ pid.ids[1] # pid.ids[2]

---------------------------------------------------------------------------
(* The Data Lineage service and its client (dataplex_lineage_api.py)       *)

\* What can go wrong with one request: nothing, a refusal (403), a server
\* error (500), no response at all (requests.exceptions.RequestException)
ApiFaults == {"none", "403", "500", "RequestException"}

Numerals == <<"1", "2", "3", "4", "5", "6", "7", "8", "9", "10", "11", "12">>

\* The id the service gives a process or a run that was posted without one
AutoId(n) == <<"auto", "-", Numerals[n]>>

ProcessName(process_id) ==
    <<"projects", "/", PROJECT_ID, "/", "locations", "/", "eu", "/", "processes", "/">>
        \o process_id

RunName(process_name, run_id) == process_name \o <<"/", "runs", "/">> \o run_id

\* None, and the test "if x:" on a name or on a response body
None == [none |-> TRUE, body |-> <<>>]
NoName == <<>>

HasProcess(svc, process_id) ==
    \E i \in DOMAIN svc.processes : svc.processes[i].id = process_id

HasRun(svc, process_id, run_id) ==
    \E i \in DOMAIN svc.runs :
        svc.runs[i].process = process_id /\ svc.runs[i].id = run_id

\* GET processes/{process_id}
GetProcess(svc, process_id, fault) ==
    CASE fault # "none" -> [status |-> fault, body |-> <<>>]
      [] HasProcess(svc, process_id) -> [status |-> "200", body |-> ProcessName(process_id)]
      [] OTHER -> [status |-> "404", body |-> <<>>]

\* POST processes, the body without a name: the service names the process
PostProcess(svc, process_data, fault) ==
    IF fault # "none"
    THEN [response |-> [status |-> fault, body |-> <<>>], svc |-> svc]
    ELSE [response |-> [status |-> "200", body |-> ProcessName(AutoId(svc.next))],
          svc |-> [svc EXCEPT !.processes = Append(@, [id |-> AutoId(svc.next),
                                                        displayName |-> process_data.displayName,
                                                        attributes |-> process_data.attributes]),
                              !.next = @ + 1]]

\* GET processes/{process_id}/runs/{run_id}
GetRun(svc, process_id, run_id, fault) ==
    CASE fault # "none" -> [status |-> fault, body |-> <<>>]
      [] HasRun(svc, process_id, run_id) ->
           [status |-> "200", body |-> RunName(ProcessName(process_id), run_id)]
      [] OTHER -> [status |-> "404", body |-> <<>>]

\* POST processes/{process_id}/runs, the body without a name
PostRun(svc, process_id, run_data, fault) ==
    CASE fault # "none" -> [response |-> [status |-> fault, body |-> <<>>], svc |-> svc]
      [] ~HasProcess(svc, process_id) ->
           [response |-> [status |-> "404", body |-> <<>>], svc |-> svc]
      [] OTHER ->
           [response |-> [status |-> "200",
                          body |-> RunName(ProcessName(process_id), AutoId(svc.next))],
            svc |-> [svc EXCEPT !.runs = Append(@, [process |-> process_id,
                                                    id |-> AutoId(svc.next),
                                                    state |-> run_data.state]),
                                !.next = @ + 1]]

\* POST processes/{process_id}/runs/{run_id}/lineageEvents
PostLineageEvent(svc, process_id, run_id, event_data, fault) ==
    CASE fault # "none" -> [response |-> [status |-> fault, body |-> <<>>], svc |-> svc]
      [] ~HasRun(svc, process_id, run_id) ->
           [response |-> [status |-> "404", body |-> <<>>], svc |-> svc]
      [] OTHER ->
           [response |-> [status |-> "200", body |-> <<"lineageEvent">>],
            svc |-> [svc EXCEPT !.events = Append(@, [process |-> process_id,
                                                      run |-> run_id,
                                                      source |-> event_data.source,
                                                      target |-> event_data.target])]]

\* DELETE {process_name}: the process goes with its runs and their events
DeleteProcess(svc, process_id, fault) ==
    CASE fault # "none" -> [response |-> [status |-> fault, body |-> <<>>], svc |-> svc]
      [] ~HasProcess(svc, process_id) ->
           [response |-> [status |-> "404", body |-> <<>>], svc |-> svc]
      [] OTHER ->
           [response |-> [status |-> "200", body |-> <<"operation">>],
            svc |-> [svc EXCEPT
                       !.processes = SelectSeq(@, LAMBDA p : p.id # process_id),
                       !.runs = SelectSeq(@, LAMBDA r : r.process # process_id),
                       !.events = SelectSeq(@, LAMBDA e : e.process # process_id)]]

\* _make_request: the body on 200 and 201 ({} when there is none), None on
\* every other status and on a request exception
_make_request(response) ==
    IF response.status \in {"200", "201"}
    THEN [none |-> FALSE, body |-> response.body]
    ELSE None

\* "if existing:", "if result:": neither None nor {}
Truthy(result) == ~result.none /\ result.body # <<>>

Request(method, kind, process_id, run_id, response) ==
    [method |-> method, kind |-> kind, process |-> process_id, run |-> run_id,
     status |-> response.status]

\* create_transformation_process(process_id, display_name, description,
\* transformation_type)
create_transformation_process(process_id, display_name, transformation_type) ==
    LET id == IF process_id = <<>>
              THEN generate_deterministic_process_id(display_name, transformation_type)
              ELSE process_id
    IN  [name |-> ProcessName(id),
         display_name |-> display_name,
         attributes |-> [transformation_type |-> transformation_type,
                         system |-> "looker",
                         created_by |-> "dataplex_lineage_api"]]

\* api.create_process(process), env what goes wrong with its GET and its
\* POST. The result: its requests (ops), the name it returned or NoName for
\* None (result), the service it leaves.
create_process(svc, process, env) ==
    LET process_id == SplitLast(process.name, "/")
        get == GetProcess(svc, process_id, env.get)
        existing == _make_request(get)
        process_data == [displayName |-> process.display_name,
                         attributes |-> process.attributes]
        post == PostProcess(svc, process_data, env.post)
        result == _make_request(post.response)
        call == [fn |-> "create_process",
                 name |-> process.name,
                 display_name |-> process.display_name,
                 transformation_type |-> process.attributes.transformation_type]
    IN  IF Truthy(existing)
        THEN [call |-> call @@
                       [ops |-> <<Request("GET", "process", process_id, <<>>, get)>>,
                        result |-> existing.body],
              svc |-> svc]
        ELSE [call |-> call @@
                       [ops |-> <<Request("GET", "process", process_id, <<>>, get),
                                  Request("POST", "process", <<>>, <<>>, post.response)>>,
                        result |-> IF Truthy(result) THEN result.body ELSE NoName],
              svc |-> post.svc]

\* int(time.time()) when a run id is made
Now == "1700000000"

\* datetime.now(timezone.utc), in seconds since the hour: the last two
\* seconds of a minute
Clock == {58, 59}

\* datetime.isoformat(): the time written by minute and second
isoformat(t) == [minute |-> t \div 60, second |-> t % 60]

\* No time: the empty text, or no endTime in the request
NoTime == [minute |-> 0 - 1, second |-> 0 - 1]

\* One second added to the seconds field alone, the minute kept
AddSecond_SecondOnly(t) == (t \div 60) * 60 + ((t + 1) % 60)

\* start_time + timedelta(seconds=1)
AddSecond(t) == t + 1

\* create_transformation_run(process_name, run_id, display_name), now what
\* datetime.now gives
create_transformation_run(process_name, run_id, display_name, now) ==
    [name |-> RunName(process_name, run_id),
     display_name |-> display_name,
     state |-> "COMPLETED",
     start_time |-> isoformat(now),
     end_time |-> isoformat(AddSecond(now))]

\* api.create_run(process_name, run): its requests (ops), the body of its
\* POST if it sent one (sent), the name it returned, the service it leaves
create_run(svc, process_name, run, env) ==
    LET process_id == SplitLast(process_name, "/")
        run_id == SplitLast(run.name, "/")
        get == GetRun(svc, process_id, run_id, env.get)
        existing == _make_request(get)
        run_data == [displayName |-> run.display_name,
                     state |-> run.state,
                     startTime |-> run.start_time,
                     endTime |-> IF run.state = "COMPLETED" /\ run.end_time # NoTime
                                 THEN run.end_time ELSE NoTime]
        post == PostRun(svc, process_id, run_data, env.post)
        result == _make_request(post.response)
    IN  IF Truthy(existing)
        THEN [ops |-> <<Request("GET", "run", process_id, run_id, get)>>,
              sent |-> <<>>,
              result |-> existing.body,
              svc |-> svc]
        ELSE [ops |-> <<Request("GET", "run", process_id, run_id, get),
                        Request("POST", "run", process_id, <<>>, post.response)>>,
              sent |-> <<run_data>>,
              result |-> IF Truthy(result) THEN result.body ELSE NoName,
              svc |-> post.svc]

\* api.create_lineage_event(process_name, run_name, source_fqn, target_fqn)
create_lineage_event(svc, process_name, run_name, source_fqn, target_fqn, fault) ==
    LET process_id == SplitLast(process_name, "/")
        run_id == SplitLast(run_name, "/")
        event_data == [source |-> source_fqn, target |-> target_fqn]
        post == PostLineageEvent(svc, process_id, run_id, event_data, fault)
        result == _make_request(post.response)
    IN  [ops |-> <<Request("POST", "event", process_id, run_id, post.response)>>,
         result |-> Truthy(result),
         svc |-> post.svc]

generate_dataplex_fqn(entry_type, entry_name) ==
    CASE entry_type = "view" ->
           <<"custom", ":", "looker", ".", "view", ":", "mylooker", ".", "retail_banking", ".">>
               \o entry_name
      [] entry_type = "explore" ->
           <<"looker", ":", "explore", ":", "mylooker", ".", "retail_banking", ".">>
               \o entry_name
      [] entry_type = "dashboard" ->
           <<"looker", ":", "dashboard", ":", "mylooker", ".", "retail_banking", ".">>
               \o entry_name
      [] OTHER ->
           <<"dataplex", ":">> \o EntryName(<<entry_type, "-">> \o entry_name)

generate_bigquery_fqn(project, dataset, table) ==
    <<"bigquery", ":", "projects", "/", project, "/", "datasets", "/", dataset,
      "/", "tables", "/">> \o table

---------------------------------------------------------------------------
(* The lineage driver                                                      *)

\* The mapping tables of the three setup functions, cut down to a few of
\* their rows
bigquery_view_mappings ==
    << [project |-> PROJECT_ID, dataset |-> "retail_banking", table |-> card, view_name |-> card],
       [project |-> PROJECT_ID, dataset |-> "retail_banking", table |-> client, view_name |-> client] >>

view_explore_mappings ==
    << [view_names |-> <<card, client>>, explore_name |-> card_transactions] >>

explore_dashboard_mappings ==
    << [explore_name |-> card_transactions, dashboard_names |-> <<customer_account>>] >>

\* What one turn of the loop of setup_bigquery_to_view_lineage works on:
\* the process definition and the lineage events to create
BigQueryViewJob(mp) ==
    [process |-> create_transformation_process(<<>>, BigQueryToLookerView(mp.view_name),
                                               view_transformation),
     run_display_name |-> <<"T", "r", "a", "n", "s", "f", "o", "r", "m", " ">> \o mp.table \o <<" ", "t", "o", " ">> \o mp.view_name,
     events |-> << <<generate_bigquery_fqn(mp.project, mp.dataset, mp.table),
                     generate_dataplex_fqn("view", mp.view_name)>> >>]

\* The same for setup_view_to_explore_lineage: an event for each view
ViewExploreJob(mp) ==
    [process |-> create_transformation_process(<<>>, ViewsToLookerExplore(mp.explore_name),
                                               explore_transformation),
     run_display_name |-> <<"A", "g", "g", "r", "e", "g", "a", "t", "e", " ", "v", "i", "e", "w", "s", " ", "t", "o", " ">> \o mp.explore_name,
     events |-> [i \in 1..Len(mp.view_names) |->
                    <<generate_dataplex_fqn("view", mp.view_names[i]),
                      generate_dataplex_fqn("explore", mp.explore_name)>>]]

\* The same for one explore and one dashboard of
\* setup_explore_to_dashboard_lineage
ExploreDashboardJob(explore_name, dashboard_name) ==
    [process |-> create_transformation_process(<<>>,
                     ExploreToDashboard(explore_name, dashboard_name),
                     dashboard_visualization),
     run_display_name |-> <<"V", "i", "s", "u", "a", "l", "i", "z", "e", " ">> \o explore_name \o <<" ", "i", "n", " ">> \o dashboard_name,
     events |-> << <<generate_dataplex_fqn("explore", explore_name),
                     generate_dataplex_fqn("dashboard", dashboard_name)>> >>]

RECURSIVE ExploreDashboardJobs(_)
ExploreDashboardJobs(table) ==
    IF table = <<>> THEN <<>>
    ELSE [i \in 1..Len(Head(table).dashboard_names) |->
             ExploreDashboardJob(Head(table).explore_name, Head(table).dashboard_names[i])]
         \o ExploreDashboardJobs(Tail(table))

\* The three setup functions in the order main() calls them
Phases == <<"bq_view", "view_explore", "explore_dash">>

Jobs ==
    [phase \in {Phases[i] : i \in DOMAIN Phases} |->
        CASE phase = "bq_view" ->
               [i \in DOMAIN bigquery_view_mappings |-> BigQueryViewJob(bigquery_view_mappings[i])]
          [] phase = "view_explore" ->
               [i \in DOMAIN view_explore_mappings |-> ViewExploreJob(view_explore_mappings[i])]
          [] OTHER -> ExploreDashboardJobs(explore_dashboard_mappings)]

\* "if actual_process_name:" and "if actual_run_name:" taken whatever the
\* name
IsSet_Always(name) == TRUE

\* "if actual_process_name:" and "if actual_run_name:"
IsSet(name) == name # NoName

\* A process left in the service by an earlier execution, with its run
LeftoverService ==
    [processes |-> << [id |-> AutoId(1),
                       displayName |-> BigQueryToLookerView(card),
                       attributes |-> [transformation_type |-> view_transformation,
                                       system |-> "looker",
                                       created_by |-> "dataplex_lineage_api"]] >>,
     runs |-> << [process |-> AutoId(1), id |-> AutoId(2), state |-> "COMPLETED"] >>,
     events |-> <<>>,
     next |-> 3]

LineageStart ==
    [pc |-> "start", token |-> "", m |-> 1, stage |-> "process", e |-> 1,
     actual_process_name |-> NoName, actual_run_name |-> NoName,
     success_count |-> 0, results |-> <<>>, cleanup_success |-> TRUE,
     cleaned |-> <<>>, searched |-> <<>>, trace |-> <<>>, returned |-> {},
     run |-> <<>>, run_data |-> <<>>, events_at |-> <<>>, summary |-> ""]

InitLineage ==
    /\ catalog = <<>>
    /\ IngestUnused
    /\ LinkerUnused
    /\ ProcessIdUnused
    /\ lsvc \in {EmptyService, LeftoverService}
    /\ lin = LineageStart
    /\ pcalls = <<NoCall, NoCall>>

\* main(): api = DataLineageAPI(PROJECT_ID, LOCATION) in its try; the token
\* is fetched once; without it main returns
LineageInit ==
    /\ lin.pc = "start"
    /\ \E outcome \in {"ok", "exit_nonzero", "no_cli"} :
          lin' = IF outcome = "ok"
                 THEN [lin EXCEPT !.pc = "cleanup", !.token = "token"]
                 ELSE [lin EXCEPT !.pc = "done"]
    /\ UNCHANGED <<catalog, ingestVars, linkerVars, pid, lsvc, pcalls>>

\* The answer to the GET of get_all_processes
ListResponse(svc, fault) ==
    IF fault = "none"
    THEN [status |-> "200", body |-> svc.processes]
    ELSE [status |-> fault, body |-> <<>>]

\* get_all_processes: the processes of the service, [] when the request
\* fails
get_all_processes(svc, fault) ==
    IF _make_request(ListResponse(svc, fault)).body = <<>>
    THEN <<>>
    ELSE svc.processes

\* The deletes of cleanup_all_processes from the i-th listed process on:
\* the service they leave, the number of deletes that failed and the
\* requests made
RECURSIVE DeleteAll(_, _, _, _)
DeleteAll(svc, processes, faults, i) ==
    IF i > Len(processes) THEN [svc |-> svc, failed_count |-> 0, ops |-> <<>>]
    ELSE LET d == DeleteProcess(svc, processes[i].id, faults[i])
             rest == DeleteAll(d.svc, processes, faults, i + 1)
         IN  [svc |-> rest.svc,
              failed_count |-> rest.failed_count
                  + (IF _make_request(d.response).none THEN 1 ELSE 0),
              ops |-> <<Request("DELETE", "process", processes[i].id, <<>>, d.response)>>
                          \o rest.ops]

\* api.cleanup_all_processes()
Cleanup ==
    /\ lin.pc = "cleanup"
    /\ \E fault \in ApiFaults :
          LET processes == get_all_processes(lsvc, fault)
          IN  \E faults \in [DOMAIN processes -> ApiFaults] :
                  LET r == DeleteAll(lsvc, processes, faults, 1)
                  IN  /\ lsvc' = r.svc
                      /\ lin' = [lin EXCEPT
                              !.pc = Phases[1],
                              !.cleanup_success = (r.failed_count = 0),
                              !.events_at = <<Len(r.svc.events)>>,
                              !.cleaned = <<Request("GET", "processes", <<>>, <<>>,
                                                    ListResponse(lsvc, fault))>> \o r.ops]
    /\ UNCHANGED <<catalog, ingestVars, linkerVars, pid, pcalls>>

InPhase == lin.pc \in {Phases[i] : i \in DOMAIN Phases}

RequestEnvs == [get : ApiFaults, post : ApiFaults]

\* The requests of a call as the driver's trace keeps them: what was asked,
\* not what came back
Asked(ops) ==
    [i \in DOMAIN ops |->
        [method |-> ops[i].method, kind |-> ops[i].kind,
         process |-> ops[i].process, run |-> ops[i].run]]

\* The turn of the loop is over: on to the next mapping
NextMapping(l) == [l EXCEPT !.m = @ + 1, !.stage = "process", !.e = 1]

\* actual_process_name = api.create_process(process)
CreateProcessStep ==
    /\ InPhase
    /\ lin.stage = "process"
    /\ lin.m <= Len(Jobs[lin.pc])
    /\ \E env \in RequestEnvs :
          LET r == create_process(lsvc, Jobs[lin.pc][lin.m].process, env)
              l == [lin EXCEPT !.actual_process_name = r.call.result,
                               !.actual_run_name = NoName,
                               !.trace = Asked(r.call.ops),
                               !.returned = IF r.call.result = NoName THEN @
                                            ELSE @ \cup {r.call.result}]
          IN  /\ lsvc' = r.svc
              /\ lin' = IF IsSet(r.call.result)
                        THEN [l EXCEPT !.stage = "run"]
                        ELSE NextMapping(l)
    /\ UNCHANGED <<catalog, ingestVars, linkerVars, pid, pcalls>>

\* actual_run_name = api.create_run(actual_process_name, run)
CreateRunStep ==
    /\ InPhase
    /\ lin.stage = "run"
    /\ \E env \in RequestEnvs, now \in Clock :
          LET run == create_transformation_run(lin.actual_process_name,
                                               <<"run", "-", Now>>,
                                               Jobs[lin.pc][lin.m].run_display_name, now)
              r == create_run(lsvc, lin.actual_process_name, run, env)
              l == [lin EXCEPT !.actual_run_name = r.result,
                               !.run = <<run>>,
                               !.run_data = r.sent,
                               !.trace = @ \o Asked(r.ops),
                               !.returned = IF r.result = NoName THEN @
                                            ELSE @ \cup {r.result}]
          IN  /\ lsvc' = r.svc
              /\ lin' = IF IsSet(r.result)
                        THEN [l EXCEPT !.stage = "event", !.e = 1]
                        ELSE NextMapping(l)
    /\ UNCHANGED <<catalog, ingestVars, linkerVars, pid, pcalls>>

\* if api.create_lineage_event(...): success_count += 1
CreateEventStep ==
    /\ InPhase
    /\ lin.stage = "event"
    /\ \E fault \in ApiFaults :
          LET events == Jobs[lin.pc][lin.m].events
              r == create_lineage_event(lsvc, lin.actual_process_name, lin.actual_run_name,
                                        events[lin.e][1], events[lin.e][2], fault)
              l == [lin EXCEPT !.trace = @ \o Asked(r.ops),
                               !.success_count = IF r.result THEN @ + 1 ELSE @]
          IN  /\ lsvc' = r.svc
              /\ lin' = IF lin.e < Len(events)
                        THEN [l EXCEPT !.e = @ + 1]
                        ELSE NextMapping(l)
    /\ UNCHANGED <<catalog, ingestVars, linkerVars, pid, pcalls>>

\* main stopping at the first setup function that returns False
AfterSetup_StopOnFailure(results) ==
    IF ~results[Len(results)] THEN "done"
    ELSE IF Len(results) < Len(Phases) THEN Phases[Len(results) + 1] ELSE "verify"

\* Where main goes on after a setup function, results being what the setup
\* functions returned so far: to the next one, whatever they returned, and
\* to the verification after the last
AfterSetup(results) ==
    IF Len(results) < Len(Phases) THEN Phases[Len(results) + 1] ELSE "verify"

\* return success_count > 0, and main goes on to the next setup function
\* or to the verification; events_at keeps the number of lineage events of
\* the service at the start and at the end of each setup function
SetupReturn ==
    /\ InPhase
    /\ lin.stage = "process"
    /\ lin.m > Len(Jobs[lin.pc])
    /\ lin' = [lin EXCEPT !.pc = AfterSetup(Append(lin.results, lin.success_count > 0)),
                          !.results = Append(@, lin.success_count > 0),
                          !.events_at = Append(@, Len(lsvc.events)),
                          !.m = 1,
                          !.success_count = 0]
    /\ UNCHANGED <<catalog, ingestVars, linkerVars, pid, lsvc, pcalls>>

\* The assets whose links search_existing_links looks for
test_assets ==
    <<generate_bigquery_fqn(PROJECT_ID, "retail_banking", card_transactions),
      generate_dataplex_fqn("view", card_transactions),
      generate_dataplex_fqn("explore", card_transactions),
      generate_dataplex_fqn("dashboard", <<"credit_card_fraud_overview">>)>>

\* The searches of search_existing_links: each asset as source, then as
\* target
SearchRequests ==
    [k \in 1..(2 * Len(test_assets)) |->
        [method |-> "POST", kind |-> "links:search",
         asset |-> test_assets[(k + 1) \div 2],
         as |-> IF k % 2 = 1 THEN "source" ELSE "target"]]

\* A summary that reports completion when any setup function returned True
Summary_AnySetup(results) ==
    IF \E k \in DOMAIN results : results[k] THEN "SETUP COMPLETE" ELSE "SOME STEPS FAILED"

\* "success = True" and the three "if not setup_...(api): success = False",
\* then "if success:" of the summary
Summary(results) ==
    IF \A k \in DOMAIN results : results[k] THEN "SETUP COMPLETE" ELSE "SOME STEPS FAILED"

\* verify_lineage(api): link searches, which change nothing; then the
\* summary is printed
VerifyLineage ==
    /\ lin.pc = "verify"
    /\ lin' = [lin EXCEPT !.pc = "done", !.searched = SearchRequests,
                          !.summary = Summary(lin.results)]
    /\ UNCHANGED <<catalog, ingestVars, linkerVars, pid, lsvc, pcalls>>

NextLineage ==
    \/ LineageInit
    \/ Cleanup
    \/ CreateProcessStep
    \/ CreateRunStep
    \/ CreateEventStep
    \/ SetupReturn
    \/ VerifyLineage

SpecLineage == InitLineage /\ [][NextLineage]_vars

---------------------------------------------------------------------------
(* The lineage client called directly                                      *)

MaxProcesses == 3

ProcessDefinitions ==
    { create_transformation_process(<<>>, BigQueryToLookerView(card), view_transformation),
      create_transformation_process(<<>>, ViewsToLookerExplore(card_transactions),
                                    explore_transformation) }

InitProcess ==
    /\ catalog = <<>>
    /\ IngestUnused
    /\ LinkerUnused
    /\ ProcessIdUnused
    /\ lsvc = EmptyService
    /\ lin = [pc |-> "client", token |-> "token"]
    /\ pcalls = <<NoCall, NoCall>>

\* One call api.create_process(process) by a user of the client
CreateProcessCall ==
    /\ lin.pc = "client"
    /\ Len(lsvc.processes) < MaxProcesses
    /\ \E process \in ProcessDefinitions, env \in RequestEnvs :
          LET r == create_process(lsvc, process, env)
          IN  /\ lsvc' = r.svc
              /\ pcalls' = <<pcalls[2], r.call>>
    /\ UNCHANGED <<catalog, ingestVars, linkerVars, pid, lin>>

NextProcess == CreateProcessCall

SpecProcess == InitProcess /\ [][NextProcess]_vars

---------------------------------------------------------------------------
(* Claims about the lineage client and driver                              *)

IsProcessCall(c) == c.fn = "create_process"

Posts(c) == {i \in DOMAIN c.ops : c.ops[i].method = "POST"}

\* The processes of the service for one definition
ProcessesFor(display_name, transformation_type) ==
    {i \in DOMAIN lsvc.processes :
        /\ lsvc.processes[i].displayName = display_name
        /\ lsvc.processes[i].attributes.transformation_type = transformation_type}

\* The earlier of two calls in sequence created its process with a POST
FirstPosted ==
    /\ IsProcessCall(pcalls[1])
    /\ Posts(pcalls[1]) # {}
    /\ pcalls[1].result # NoName

\* The later call is for the same definition and nothing goes wrong with
\* its requests
SecondSameDefinition ==
    /\ IsProcessCall(pcalls[2])
    /\ pcalls[2].display_name = pcalls[1].display_name
    /\ pcalls[2].transformation_type = pcalls[1].transformation_type
    /\ \A i \in DOMAIN pcalls[2].ops : pcalls[2].ops[i].status \in {"200", "404"}

\* C7: create_process called twice in sequence for the same display name
\* and transformation type: the second call finds the process the first
\* created through its GET on the deterministic id and sends no POST, and
\* the service holds one process for the definition.
C7_SecondCallFindsProcess ==
    (FirstPosted /\ SecondSameDefinition) =>
        /\ pcalls[2].ops[1].status = "200"
        /\ Posts(pcalls[2]) = {}
        /\ pcalls[2].result = pcalls[1].result
        /\ Cardinality(ProcessesFor(pcalls[2].display_name,
                                    pcalls[2].transformation_type)) = 1

IdsOf(names) == {SplitLast(n, "/") : n \in names}

RunRequests == {i \in DOMAIN lin.trace : lin.trace[i].kind = "run"}
EventRequests == {i \in DOMAIN lin.trace : lin.trace[i].kind = "event"}

\* C8: in the lineage driver a run request is sent only under a process
\* whose name create_process returned in this execution, an event request
\* only under a run whose name create_run returned; for a mapping whose
\* create_process failed no run and no event is requested.
C8_RunUnderProcessEventUnderRun ==
    lin.pc \notin {"idle", "client", "start"} =>
        /\ \A i \in RunRequests :
              /\ lin.actual_process_name \in lin.returned
              /\ HasProcess(lsvc, lin.trace[i].process)
              /\ lin.trace[i].process = SplitLast(lin.actual_process_name, "/")
        /\ \A i \in EventRequests :
              /\ lin.actual_run_name \in lin.returned
              /\ RunRequests # {}
              /\ lin.trace[i].run = SplitLast(lin.actual_run_name, "/")
              /\ RunName(ProcessName(lin.trace[i].process), lin.trace[i].run)
                     = lin.actual_run_name
        /\ lin.actual_process_name = NoName => RunRequests = {} /\ EventRequests = {}
        /\ lin.actual_run_name = NoName => EventRequests = {}

\* An event was requested under the run and the process just created
C8_Witness ==
    /\ lin.pc = "view_explore"
    /\ EventRequests # {}
    /\ lin.success_count = 2
    /\ Len(lsvc.events) = 3

\* create_process failed for the last mapping and the driver went on
C8_WitnessFailure ==
    /\ lin.pc = "bq_view"
    /\ lin.m = 2
    /\ lin.actual_process_name = NoName
    /\ Len(lin.trace) = 2
    /\ lin.trace[2].method = "POST"
    /\ lin.results = <<>>

---------------------------------------------------------------------------
(* The relationship linker run twice over one catalog                      *)

\* The script is started again after its main() returned: the catalog and
\* the entry links stay, the locals are new; first keeps the entry links
\* the first run left
LinkerRerun ==
    /\ lk.pc = "done"
    /\ lk.run = "first"
    /\ lk' = [LinkerStart EXCEPT !.run = "second", !.first = links]
    /\ lcall' = NoCall
    /\ UNCHANGED <<catalog, ingestVars, links, pid, lineageVars>>

InitRerun ==
    /\ catalog = CatalogOf(LinkerEntries)
    /\ IngestUnused
    /\ ProcessIdUnused
    /\ LineageUnused
    /\ lk = LinkerStart
    /\ links = <<>>
    /\ lcall = NoCall

NextRerun ==
    \/ NextLinker
    \/ LinkerRerun

SpecRerun == InitRerun /\ [][NextRerun]_vars

\* The entry links of lks for one (source, target, link type)
LinksFor(lks, source, target, link_type) ==
    {i \in DOMAIN lks :
        /\ lks[i].source = source
        /\ lks[i].target = target
        /\ lks[i].entryLinkType = entry_link_type(link_type)}

\* The pair of the last call of create_entry_link was linked by the first
\* run
LinkedByFirstRun(c) == LinksFor(lk.first, c.source, c.target, c.link_type) # {}

\* The POST of the call was answered by the service: the link was created
\* or its id was taken
PostAnswered(c) == \E p \in OpsOf(c, "post") : c.ops[p].out \in {"200", "409"}

\* C11: in a second run of the linker over the same catalog, no pair that
\* the first run linked gets another entry link: the POST sent for it is
\* answered with 409, the call returns True and the pair keeps one link.
C11_RerunCreatesNoLink ==
    (lk.run = "second" /\ IsLinkCall(lcall) /\ LinkedByFirstRun(lcall)
                       /\ PostAnswered(lcall)) =>
        /\ lcall.ops[4].out = "409"
        /\ lcall.result = "True"
        /\ Cardinality(LinksFor(links, lcall.source, lcall.target, lcall.link_type)) = 1

---------------------------------------------------------------------------
(* Regular expressions (Python's re), on text held one character per       *)
(* token. A pattern is the sequence of its items in the order of the       *)
(* expression; the match of a pattern at a position is the first one in    *)
(* the order of a backtracking matcher: a greedy item takes the most it    *)
(* can with which the rest of the pattern still matches, a lazy one the    *)
(* least.                                                                  *)

Letters ==
    {"a", "b", "c", "d", "e", "f", "g", "h", "i", "j", "k", "l", "m",
     "n", "o", "p", "q", "r", "s", "t", "u", "v", "w", "x", "y", "z",
     "A", "B", "C", "D", "E", "F", "G", "H", "I", "J", "K", "L", "M",
     "N", "O", "P", "Q", "R", "S", "T", "U", "V", "W", "X", "Y", "Z"}

Digits == {"0", "1", "2", "3", "4", "5", "6", "7", "8", "9"}

\* \w and \s
WordChars == Letters \cup Digits \cup {"_"}
SpaceChars == {" ", "\t", "\n", "\r", "\f"}

\* A character class: the characters of a set (neg false) or the others
\* (neg true): \w, \s, "." under re.DOTALL, [...] and [^...]
InClass(c, class) == (c \in class.set) # class.neg

W == [neg |-> FALSE, set |-> WordChars]
S == [neg |-> FALSE, set |-> SpaceChars]
AnyChar == [neg |-> TRUE, set |-> {}]
Of(chars) == [neg |-> FALSE, set |-> chars]
Not(chars) == [neg |-> TRUE, set |-> chars]

\* The items of a pattern: a literal text; a class repeated min times or
\* more, greedy or lazy, as the capturing group g when g is not 0; the
\* start and the end of a capturing group g of several items; a
\* non-capturing group repeated zero times or more, greedy
lit(text) == [t |-> "lit", s |-> text]
rep(class, min, greedy, g) ==
    [t |-> "cls", c |-> class, min |-> min, greedy |-> greedy, g |-> g]
cls(class, min, greedy) == rep(class, min, greedy, 0)
open(g) == [t |-> "open", g |-> g]
close(g) == [t |-> "close", g |-> g]
star(items) == [t |-> "star", items |-> items]

\* (class+) and (class*) as capturing group g, greedy
cap(g, class, min) == <<rep(class, min, TRUE, g)>>

NoMatch == [ok |-> FALSE]

\* The number of characters of the class in a row from position i on
Run(s, i, class) ==
    Cardinality({j \in i..Len(s) : \A k \in i..j : InClass(s[k], class)})

\* The match among ms, keyed by the length the item took, that a greedy
\* (a lazy) item settles on
Settle(ms, greedy) ==
    Bind(ms, LAMBDA v :
        IF v = {} THEN NoMatch
        ELSE (CHOOSE r \in v : \A q \in v : IF greedy THEN q.n <= r.n ELSE q.n >= r.n).m)

\* The match of the items at position i of s, groups being the groups
\* captured so far
RECURSIVE Match(_, _, _, _)
Match(items, s, i, groups) ==
    IF items = <<>> THEN [ok |-> TRUE, end |-> i, groups |-> groups]
    ELSE CASE items[1].t = "lit" ->
                IF /\ i + Len(items[1].s) - 1 <= Len(s)
                   /\ SubSeq(s, i, i + Len(items[1].s) - 1) = items[1].s
                THEN Match(Tail(items), s, i + Len(items[1].s), groups)
                ELSE NoMatch
           [] items[1].t = "open" ->
                Match(Tail(items), s, i, [groups EXCEPT ![items[1].g] = <<i, i - 1>>])
           [] items[1].t = "close" ->
                Match(Tail(items), s, i, [groups EXCEPT ![items[1].g][2] = i - 1])
           [] items[1].t = "cls" ->
                Settle({r \in {[n |-> n,
                                   m |-> Match(Tail(items), s, i + n,
                                               IF items[1].g = 0 THEN groups
                                               ELSE [groups EXCEPT ![items[1].g] = <<i, i + n - 1>>])] :
                                   n \in items[1].min..Run(s, i, items[1].c)} : r.m.ok},
                       items[1].greedy)
           [] OTHER ->
                \* one more turn of the group if that leads to a match,
                \* none otherwise
                Bind(Match(items[1].items \o items, s, i, groups), LAMBDA more :
                    IF more.ok THEN more ELSE Match(Tail(items), s, i, groups))

\* The match object of a match: where it starts and ends, and the text of
\* its groups
MatchObject(s, i, m) ==
    [ok |-> TRUE, start |-> i, end |-> m.end,
     group |-> [g \in DOMAIN m.groups |-> SubSeq(s, m.groups[g][1], m.groups[g][2])]]

\* re.search(pattern, s) from position from on: the leftmost match
SearchFrom(pattern, ngroups, s, from) ==
    Bind({r \in {[n |-> i, m |-> Match(pattern, s, i, [g \in 1..ngroups |-> <<0, -1>>])] :
                    i \in from..(Len(s) + 1)} : r.m.ok},
         LAMBDA v :
             IF v = {} THEN NoMatch
             ELSE Bind(CHOOSE r \in v : \A q \in v : q.n >= r.n,
                       LAMBDA r : MatchObject(s, r.n, r.m)))

re_search(pattern, ngroups, s) == SearchFrom(pattern, ngroups, s, 1)

\* The matches of re.findall and re.split, from left to right and without
\* overlap (no pattern here matches the empty text)
RECURSIVE Matches(_, _, _, _)
Matches(pattern, ngroups, s, from) ==
    Bind(SearchFrom(pattern, ngroups, s, from), LAMBDA m :
        IF m.ok THEN <<m>> \o Matches(pattern, ngroups, s, m.end) ELSE <<>>)

\* re.findall(pattern, s): the groups of each match
re_findall(pattern, ngroups, s) ==
    Bind(Matches(pattern, ngroups, s, 1), LAMBDA ms :
        [k \in DOMAIN ms |-> ms[k].group])

\* str.strip(): without the characters of chars at both ends
strip(s, chars) ==
    Bind({i \in DOMAIN s : s[i] \notin chars}, LAMBDA keep :
        IF keep = {} THEN <<>>
        ELSE SubSeq(s, CHOOSE i \in keep : \A j \in keep : i <= j,
                       CHOOSE i \in keep : \A j \in keep : i >= j))

\* What calling group() on None raises
AttributeError == <<"AttributeError">>

\* "x" alone, without the test of the match
GroupOr_Unguarded(m, g, default) == IF m.ok THEN m.group[g] ELSE AttributeError

\* "x if match else default" with x a group of the match
GroupOr(m, g, default) == IF m.ok THEN m.group[g] ELSE default

\* None where a text is expected
NoText == <<"None">>

---------------------------------------------------------------------------
(* The LookML extractors (ingest_views_only.py, ingest_explores_only.py,   *)
(* ingest_dashboards_only.py)                                              *)

\* r'sql:\s*([^;]+);'
SqlPattern == <<lit(<<"s", "q", "l", ":">>), cls(S, 0, TRUE)>> \o cap(1, Not({";"}), 1) \o <<lit(<<";">>)>>

\* r'type:\s*(\w+)'
TypePattern == <<lit(<<"t", "y", "p", "e", ":">>), cls(S, 0, TRUE)>> \o cap(1, W, 1)

\* r'\$\{TABLE\}\.(\w+)'
TableColumnPattern == <<lit(<<"$", "{", "T", "A", "B", "L", "E", "}", ".">>)>> \o cap(1, W, 1)

\* r'view:\s*(\w+)'
ViewNamePattern == <<lit(<<"v", "i", "e", "w", ":">>), cls(S, 0, TRUE)>> \o cap(1, W, 1)

\* r'sql_table_name:\s*`([^`]+)`', the backquote written BACKQUOTE
SqlTableNamePattern ==
    <<lit(<<"s", "q", "l", "_", "t", "a", "b", "l", "e", "_", "n", "a", "m", "e", ":">>), cls(S, 0, TRUE), lit(<<"BACKQUOTE">>)>> \o cap(1, Not({"BACKQUOTE"}), 1) \o <<lit(<<"BACKQUOTE">>)>>

\* r'description:\s*"([^"]+)"'
DescriptionPattern ==
    <<lit(<<"d", "e", "s", "c", "r", "i", "p", "t", "i", "o", "n", ":">>), cls(S, 0, TRUE), lit(<<"\"">>)>> \o cap(1, Not({"\""}), 1) \o <<lit(<<"\"">>)>>

\* r'dimension:\s*(\w+)\s*\{([^}]+(?:\{[^}]*\}[^}]*)*)\}' and the same
\* with measure
FieldBlockPattern(keyword) ==
    <<lit(keyword \o <<":">>), cls(S, 0, TRUE)>> \o cap(1, W, 1)
        \o <<cls(S, 0, TRUE), lit(<<"{">>), open(2), cls(Not({"}"}), 1, TRUE),
             star(<<lit(<<"{">>), cls(Not({"}"}), 0, TRUE), lit(<<"}">>), cls(Not({"}"}), 0, TRUE)>>),
             close(2), lit(<<"}">>)>>

dimension == <<"d", "i", "m", "e", "n", "s", "i", "o", "n">>
measure == <<"m", "e", "a", "s", "u", "r", "e">>

\* "if sql_definition:": neither None nor the empty text
IsText(x) == x # NoText /\ x # <<>>

parse_field_definition(field_block, field_name, field_type) ==
    Bind(re_search(SqlPattern, 1, field_block), LAMBDA sql_match :
        Bind(IF sql_match.ok THEN strip(sql_match.group[1], SpaceChars) ELSE NoText,
             LAMBDA sql_definition :
                 [field_name |-> field_name,
                  field_type |-> GroupOr(re_search(TypePattern, 1, field_block), 1, field_type),
                  source_column |->
                      IF IsText(sql_definition)
                      THEN GroupOr(re_search(TableColumnPattern, 1, sql_definition), 1, NoText)
                      ELSE NoText,
                  sql_definition |-> sql_definition]))

\* The loop over the blocks of one keyword
FieldsOf(content, keyword, sql_table_name) ==
    Bind(re_findall(FieldBlockPattern(keyword), 2, content), LAMBDA blocks :
        [k \in DOMAIN blocks |->
            [source_table |-> sql_table_name]
                @@ parse_field_definition(blocks[k][2], blocks[k][1], keyword)])

\* parse_view_file(file_path), content the text of the file and stem
\* Path(file_path).stem
parse_view_file(content, stem) ==
    Bind(GroupOr(re_search(SqlTableNamePattern, 1, content), 1, NoText), LAMBDA sql_table_name :
        [name |-> GroupOr(re_search(ViewNamePattern, 1, content), 1, stem),
         sql_table_name |-> sql_table_name,
         dimensions |-> FieldsOf(content, dimension, sql_table_name),
         measures |-> FieldsOf(content, measure, sql_table_name),
         description |-> GroupOr(re_search(DescriptionPattern, 1, content), 1, NoText)])


\* r'\nexplore:\s*(\w+)'
ExploreSectionPattern == <<lit(<<"\n", "e", "x", "p", "l", "o", "r", "e", ":">>), cls(S, 0, TRUE)>> \o cap(1, W, 1)

\* r'join:\s*(\w+)\s*\{([^}]*(?:\{[^}]*\}[^}]*)*)\}'
JoinPattern ==
    <<lit(<<"j", "o", "i", "n", ":">>), cls(S, 0, TRUE)>> \o cap(1, W, 1)
        \o <<cls(S, 0, TRUE), lit(<<"{">>), open(2), cls(Not({"}"}), 0, TRUE),
             star(<<lit(<<"{">>), cls(Not({"}"}), 0, TRUE), lit(<<"}">>), cls(Not({"}"}), 0, TRUE)>>),
             close(2), lit(<<"}">>)>>

\* r'relationship:\s*(\w+)'
RelationshipPattern == <<lit(<<"r", "e", "l", "a", "t", "i", "o", "n", "s", "h", "i", "p", ":">>), cls(S, 0, TRUE)>> \o cap(1, W, 1)

\* r'sql_on:\s*([^;]+);'
SqlOnPattern == <<lit(<<"s", "q", "l", "_", "o", "n", ":">>), cls(S, 0, TRUE)>> \o cap(1, Not({";"}), 1) \o <<lit(<<";">>)>>

\* r'fields:\s*\[([^\]]+)\]'
FieldsPattern ==
    <<lit(<<"f", "i", "e", "l", "d", "s", ":">>), cls(S, 0, TRUE), lit(<<"[">>)>> \o cap(1, Not({"]"}), 1) \o <<lit(<<"]">>)>>

\* r'[^,\s]+(?:\.[^,\s]+)*', the whole match taken as group 1
FieldItemPattern ==
    <<open(1), cls(Not(SpaceChars \cup {","}), 1, TRUE),
      star(<<lit(<<".">>), cls(Not(SpaceChars \cup {","}), 1, TRUE)>>), close(1)>>

\* r'label:\s*"([^"]+)"'
LabelPattern ==
    <<lit(<<"l", "a", "b", "e", "l", ":">>), cls(S, 0, TRUE), lit(<<"\"">>)>> \o cap(1, Not({"\""}), 1) \o <<lit(<<"\"">>)>>

many_to_one == <<"m", "a", "n", "y", "_", "t", "o", "_", "o", "n", "e">>

\* The pieces of re.split(pattern, s) for a pattern of one group: the text
\* before the first match, then for each match its group and the text up
\* to the next match
re_split(pattern, s) ==
    Bind(Matches(pattern, 1, s, 1), LAMBDA ms :
        [k \in 1..(2 * Len(ms) + 1) |->
            IF k % 2 = 0 THEN ms[k \div 2].group[1]
            ELSE SubSeq(s, IF k = 1 THEN 1 ELSE ms[(k - 1) \div 2].end,
                           IF k = 2 * Len(ms) + 1 THEN Len(s)
                           ELSE ms[(k + 1) \div 2].start - 1)])

\* join_info of one match of the join pattern
JoinInfo(join_name, join_content) ==
    [name |-> join_name,
     relationship |-> GroupOr(re_search(RelationshipPattern, 1, join_content), 1, many_to_one),
     sql_on |-> Bind(re_search(SqlOnPattern, 1, join_content), LAMBDA sql_on_match :
                    IF sql_on_match.ok THEN strip(sql_on_match.group[1], SpaceChars)
                    ELSE <<>>)]

\* The fields of an explore: [] without a fields list
ExploreFields(explore_content) ==
    Bind(re_search(FieldsPattern, 1, explore_content), LAMBDA fields_match :
        IF ~fields_match.ok THEN <<>>
        ELSE Bind(re_findall(FieldItemPattern, 1, fields_match.group[1]), LAMBDA field_items :
                 [k \in DOMAIN field_items |->
                     strip(strip(field_items[k][1], SpaceChars), {"\"", "'"})]))

\* ExploreMetadata of one section
ExploreOf(explore_name, explore_content) ==
    [name |-> explore_name,
     base_view |-> explore_name,
     joins |-> Bind(re_findall(JoinPattern, 2, explore_content), LAMBDA join_matches :
                   [k \in DOMAIN join_matches |->
                       JoinInfo(join_matches[k][1], join_matches[k][2])]),
     fields |-> ExploreFields(explore_content),
     description |->
         GroupOr(re_search(DescriptionPattern, 1, explore_content), 1,
                 GroupOr(re_search(LabelPattern, 1, explore_content), 1, NoText))]

\* parse_explores(file_path): the dictionary explores, a later section of a
\* name taking the place of an earlier one
parse_explores(content) ==
    Bind(re_split(ExploreSectionPattern, content), LAMBDA explore_sections :
        Bind({i \in DOMAIN explore_sections : i % 2 = 0 /\ i + 1 <= Len(explore_sections)},
             LAMBDA names :
                 [explore_name \in {explore_sections[i] : i \in names} |->
                     ExploreOf(explore_name,
                               explore_sections[
                                   (CHOOSE i \in names :
                                       /\ explore_sections[i] = explore_name
                                       /\ \A j \in names :
                                             explore_sections[j] = explore_name => j <= i) + 1])]))


\* r'dashboard:\s*(\w+)'
DashboardNamePattern == <<lit(<<"d", "a", "s", "h", "b", "o", "a", "r", "d", ":">>), cls(S, 0, TRUE)>> \o cap(1, W, 1)

\* r'title:\s*([^\n]+)'
TitlePattern == <<lit(<<"t", "i", "t", "l", "e", ":">>), cls(S, 0, TRUE)>> \o cap(1, Not({"\n"}), 1)

\* r'- title:\s*([^\n]+)\s+name:\s*([^\n]+)\s+model:\s*([^\n]+)\s+explore:\s*([^\n]+)
\*   \s+type:\s*([^\n]+)\s+fields:\s*\[([^\]]+)\]'
ElementPattern ==
    <<lit(<<"-", " ", "t", "i", "t", "l", "e", ":">>), cls(S, 0, TRUE)>> \o cap(1, Not({"\n"}), 1)
        \o <<cls(S, 1, TRUE), lit(<<"n", "a", "m", "e", ":">>), cls(S, 0, TRUE)>> \o cap(2, Not({"\n"}), 1)
        \o <<cls(S, 1, TRUE), lit(<<"m", "o", "d", "e", "l", ":">>), cls(S, 0, TRUE)>> \o cap(3, Not({"\n"}), 1)
        \o <<cls(S, 1, TRUE), lit(<<"e", "x", "p", "l", "o", "r", "e", ":">>), cls(S, 0, TRUE)>> \o cap(4, Not({"\n"}), 1)
        \o <<cls(S, 1, TRUE), lit(<<"t", "y", "p", "e", ":">>), cls(S, 0, TRUE)>> \o cap(5, Not({"\n"}), 1)
        \o <<cls(S, 1, TRUE), lit(<<"f", "i", "e", "l", "d", "s", ":">>), cls(S, 0, TRUE), lit(<<"[">>)>>
        \o cap(6, Not({"]"}), 1) \o <<lit(<<"]">>)>>

\* rf'name:\s*{re.escape(element_name.strip())}.*?filters:\s*\{{([^}}]+)\}}'
\* under re.DOTALL
FilterSectionPattern(element_name) ==
    <<lit(<<"n", "a", "m", "e", ":">>), cls(S, 0, TRUE), lit(strip(element_name, SpaceChars)),
      cls(AnyChar, 0, FALSE), lit(<<"f", "i", "l", "t", "e", "r", "s", ":">>), cls(S, 0, TRUE), lit(<<"{">>)>>
        \o cap(1, Not({"}"}), 1) \o <<lit(<<"}">>)>>

\* r'(\w+[.\w]*)\s*:\s*([^\n]+)'
FilterPattern ==
    <<open(1), cls(W, 1, TRUE), cls(Of(WordChars \cup {"."}), 0, TRUE), close(1),
      cls(S, 0, TRUE), lit(<<":">>), cls(S, 0, TRUE)>> \o cap(2, Not({"\n"}), 1)

\* r'explore:\s*(\w+)'
ExplorePattern == <<lit(<<"e", "x", "p", "l", "o", "r", "e", ":">>), cls(S, 0, TRUE)>> \o cap(1, W, 1)

\* s.split(sep) for a separator of one character
RECURSIVE split(_, _)
split(s, sep) ==
    Bind({i \in DOMAIN s : s[i] = sep}, LAMBDA at :
        IF at = {} THEN <<s>>
        ELSE Bind(CHOOSE i \in at : \A j \in at : i <= j, LAMBDA i :
                 <<SubSeq(s, 1, i - 1)>> \o split(SubSeq(s, i + 1, Len(s)), sep)))

\* The dictionary filters of an element: {} without a filters section, a
\* later value of a key taking the place of an earlier one
ElementFilters(content, element_name) ==
    Bind(re_search(FilterSectionPattern(element_name), 1, content), LAMBDA filter_section_match :
        IF ~filter_section_match.ok THEN <<>>
        ELSE Bind(re_findall(FilterPattern, 2, filter_section_match.group[1]),
                  LAMBDA filter_matches :
                      [key \in {strip(filter_matches[k][1], SpaceChars) : k \in DOMAIN filter_matches} |->
                          strip(strip(filter_matches[
                                    CHOOSE k \in DOMAIN filter_matches :
                                        /\ strip(filter_matches[k][1], SpaceChars) = key
                                        /\ \A j \in DOMAIN filter_matches :
                                              strip(filter_matches[j][1], SpaceChars) = key
                                                  => j <= k][2],
                                    SpaceChars), {"'", "\""})]))

\* DashboardElement of one match of the element pattern
ElementOf(content, match) ==
    [name |-> strip(match[2], SpaceChars),
     type |-> strip(match[5], SpaceChars),
     model |-> strip(match[3], SpaceChars),
     explore |-> strip(match[4], SpaceChars),
     fields |-> Bind(split(match[6], ","), LAMBDA fs :
                    [k \in DOMAIN fs |-> strip(fs[k], SpaceChars)]),
     filters |-> ElementFilters(content, match[2])]

\* parse_dashboard_file(file_path), content the text of the file and stem
\* Path(file_path).stem
parse_dashboard_file(content, stem) ==
    Bind(GroupOr(re_search(DashboardNamePattern, 1, content), 1, stem), LAMBDA dashboard_name :
        Bind(re_findall(ElementPattern, 6, content), LAMBDA element_matches :
            Bind([k \in DOMAIN element_matches |-> ElementOf(content, element_matches[k])],
                 LAMBDA elements :
                     [name |-> dashboard_name,
                      title |-> Bind(re_search(TitlePattern, 1, content), LAMBDA title_match :
                                    IF title_match.ok THEN strip(title_match.group[1], SpaceChars)
                                    ELSE dashboard_name),
                      elements |-> elements,
                      explores |-> {elements[k].explore : k \in DOMAIN elements}
                          \cup Bind(re_findall(ExplorePattern, 1, content), LAMBDA direct_explores :
                                   {direct_explores[k][1] : k \in DOMAIN direct_explores})])))


---------------------------------------------------------------------------
(* The extractors' specification: a LookML file is read and parsed, or the *)
(* entry group is listed. A file is described by what it declares and      *)
(* holds the text written from the declaration.                            *)

\* Path(file_path).stem of the files read
Stem == <<"s", "t", "e", "m">>

\* The sql clauses of a field block: none, a column of the view's table
\* closed by ";" or by ";;", and an expression that names no column
SqlClauses ==
    {[column |-> NoText, text |-> <<>>],
     [column |-> <<"a", "m", "t">>, text |-> <<"s", "q", "l", ":", " ", "$", "{", "T", "A", "B", "L", "E", "}", ".", "a", "m", "t", " ", ";">>],
     [column |-> <<"a", "m", "t">>, text |-> <<"s", "q", "l", ":", " ", "$", "{", "T", "A", "B", "L", "E", "}", ".", "a", "m", "t", " ", ";", ";", " ">>],
     [column |-> NoText, text |-> <<"s", "q", "l", ":", " ", "1", " ", ";", ";", " ">>]}

\* The field blocks declared: keyword: name { type: t sql: ... }
FieldBlocks ==
    [keyword : {dimension, measure}, name : {<<"a", "m", "o", "u", "n", "t">>, <<"i", "d">>},
     type : {<<>>, <<"n", "u", "m", "b", "e", "r">>}, sql : SqlClauses]

TotalBlock ==
    [keyword |-> measure, name |-> <<"t", "o", "t", "a", "l">>, type |-> <<"s", "u", "m">>,
     sql |-> [column |-> <<"a", "m", "t">>, text |-> <<"s", "q", "l", ":", " ", "$", "{", "T", "A", "B", "L", "E", "}", ".", "a", "m", "t", " ", ";", ";", " ">>]]

BlockText(b) ==
    b.keyword \o <<":", " ">> \o b.name \o <<" ", "{", " ">>
        \o (IF b.type = <<>> THEN <<>> ELSE <<"t", "y", "p", "e", ":", " ">> \o b.type \o <<" ">>)
        \o b.sql.text \o <<"}">>

RECURSIVE Joined(_, _)
Joined(texts, sep) ==
    IF texts = <<>> THEN <<>> ELSE texts[1] \o sep \o Joined(Tail(texts), sep)

ViewText(header, blocks) ==
    IF header
    THEN <<"v", "i", "e", "w", ":", " ", "o", "r", "d", "e", "r", "s", " ", "{", " ">> \o Joined([k \in DOMAIN blocks |-> BlockText(blocks[k])], <<" ">>) \o <<"}">>
    ELSE Joined([k \in DOMAIN blocks |-> BlockText(blocks[k])], <<" ">>)

ViewFile(header, blocks) ==
    [header |-> header, blocks |-> blocks, text |-> ViewText(header, blocks)]

\* The view files read: no block, one block, or one block and a measure
\* after it, inside a view declaration or bare; and a text that is no
\* LookML
ViewFiles ==
    {ViewFile(h, bs) :
        h \in BOOLEAN,
        bs \in {<<>>} \cup {<<b>> : b \in FieldBlocks} \cup {<<b, TotalBlock>> : b \in FieldBlocks}}
    \cup {[header |-> FALSE, blocks |-> <<>>, text |-> <<"}", "{", " ", "s", "q", "l", ":", " ", "t", "y", "p", "e", ":", " ", ";">>]}

\* The joins declared in an explore: relationship and sql_on are optional
Joins ==
    [name : {<<"b">>}, relationship : {<<>>, <<"o", "n", "e", "_", "t", "o", "_", "m", "a", "n", "y">>}, sql_on : {<<>>, <<"a", ".", "i", "d", " ", "=", " ", "b", ".", "i", "d">>}]

JoinText(j) ==
    <<"j", "o", "i", "n", ":", " ">> \o j.name \o <<" ", "{", " ">>
        \o (IF j.relationship = <<>> THEN <<>> ELSE <<"r", "e", "l", "a", "t", "i", "o", "n", "s", "h", "i", "p", ":", " ">> \o j.relationship \o <<" ">>)
        \o (IF j.sql_on = <<>> THEN <<>> ELSE <<"s", "q", "l", "_", "o", "n", ":", " ">> \o j.sql_on \o <<" ", ";", ";", " ">>)
        \o <<"}">>

ModelText(explores) ==
    <<"#", " ", "m", "o", "d", "e", "l">> \o Joined([k \in DOMAIN explores |->
                            <<"\n", "e", "x", "p", "l", "o", "r", "e", ":", " ">> \o explores[k].name \o <<" ", "{", " ">>
                                \o Joined([n \in DOMAIN explores[k].joins |->
                                              JoinText(explores[k].joins[n])], <<" ">>) \o <<"}">>], <<>>)

ModelFile(explores) == [explores |-> explores, text |-> ModelText(explores)]

\* The model files read: no explore, or one explore of up to two joins
ModelFiles ==
    {ModelFile(es) :
        es \in {<<>>} \cup {<<[name |-> <<"a">>, joins |-> js]>> :
                                js \in {<<>>} \cup {<<j>> : j \in Joins}
                                          \cup {<<j, k>> : j \in Joins, k \in Joins}}}

\* The elements declared in a dashboard, with or without filters
Elements == [name : {<<"s", "a", "l", "e", "s">>}, explore : {<<"a">>}, filters : BOOLEAN]

ElementText(e) ==
    <<" ", " ", "-", " ", "t", "i", "t", "l", "e", ":", " ">> \o e.name \o <<"\n", " ", " ", " ", " ", "n", "a", "m", "e", ":", " ">> \o e.name \o <<"\n", " ", " ", " ", " ", "m", "o", "d", "e", "l", ":", " ", "m", "\n", " ", " ", " ", " ", "e", "x", "p", "l", "o", "r", "e", ":", " ">> \o e.explore \o <<"\n", " ", " ", " ", " ", "t", "y", "p", "e", ":", " ", "t", "\n", " ", " ", " ", " ", "f", "i", "e", "l", "d", "s", ":", " ", "[", "a", ".", "x", ",", " ", "a", ".", "y", "]", "\n">> \o (IF e.filters THEN <<" ", " ", " ", " ", "f", "i", "l", "t", "e", "r", "s", ":", " ", "{", "\n", " ", " ", " ", " ", " ", " ", "a", ".", "x", ":", " ", "\"", "1", "\"", "\n", " ", " ", " ", " ", "}", "\n">> ELSE <<>>)

DashboardText(named, titled, elements) ==
    (IF named THEN <<"-", " ", "d", "a", "s", "h", "b", "o", "a", "r", "d", ":", " ", "d", "\n">> ELSE <<>>)
        \o (IF titled THEN <<" ", " ", "t", "i", "t", "l", "e", ":", " ", "T", "\n">> ELSE <<>>)
        \o Joined([k \in DOMAIN elements |-> ElementText(elements[k])], <<>>)

DashboardFile(named, titled, elements) ==
    [named |-> named, titled |-> titled, elements |-> elements,
     text |-> DashboardText(named, titled, elements)]

\* The dashboard files read
DashboardFiles ==
    {DashboardFile(n, t, es) :
        n \in BOOLEAN, t \in BOOLEAN, es \in {<<>>} \cup {<<e>> : e \in Elements}}

\* A script about to read a file of a kind, or to list the entry group
Opened(kind, file) == [fn |-> "open", kind |-> kind, file |-> file]

Inputs ==
    {Opened("view", file) : file \in ViewFiles}
        \cup {Opened("model", file) : file \in ModelFiles}
        \cup {Opened("dashboard", file) : file \in DashboardFiles}
        \cup {Opened("entries", <<>>)}

InitParse ==
    /\ catalog = CatalogOf(LinkerEntries)
    /\ tmpFiles = {}
    /\ prev = NoCall
    /\ last = NoCall
    /\ ext \in Inputs
    /\ race = Idle
    /\ LinkerUnused
    /\ ProcessIdUnused
    /\ LineageUnused

ParseView ==
    /\ ext.fn = "open"
    /\ ext.kind = "view"
    /\ ext' = [fn |-> "parse_view_file", file |-> ext.file,
               result |-> parse_view_file(ext.file.text, Stem)]
    /\ UNCHANGED <<catalog, tmpFiles, prev, last, race, linkerVars, pid, lineageVars>>

ParseExplores ==
    /\ ext.fn = "open"
    /\ ext.kind = "model"
    /\ ext' = [fn |-> "parse_explores", file |-> ext.file,
               result |-> parse_explores(ext.file.text)]
    /\ UNCHANGED <<catalog, tmpFiles, prev, last, race, linkerVars, pid, lineageVars>>

ParseDashboard ==
    /\ ext.fn = "open"
    /\ ext.kind = "dashboard"
    /\ ext' = [fn |-> "parse_dashboard_file", file |-> ext.file,
               result |-> parse_dashboard_file(ext.file.text, Stem)]
    /\ UNCHANGED <<catalog, tmpFiles, prev, last, race, linkerVars, pid, lineageVars>>

\* The linker lists the entry group
ListEntries ==
    /\ ext.fn = "open"
    /\ ext.kind = "entries"
    /\ \E outcome \in ListOutcomes :
          ext' = [fn |-> "get_existing_entries", outcome |-> outcome,
                  result |-> get_existing_entries(catalog, outcome)]
    /\ UNCHANGED <<catalog, tmpFiles, prev, last, race, linkerVars, pid, lineageVars>>

NextParse == ParseView \/ ParseExplores \/ ParseDashboard \/ ListEntries

SpecParse == InitParse /\ [][NextParse]_vars

\* The field records of a view for the blocks of a keyword
FieldsFor(view, keyword) == IF keyword = dimension THEN view.dimensions ELSE view.measures

\* The records that parse_view_file gave for a declared block
RecordsOf(view, b) ==
    {k \in DOMAIN FieldsFor(view, b.keyword) : FieldsFor(view, b.keyword)[k].field_name = b.name}

\* A declared block that has a type and whose sql clause names a column of
\* the view's table
NamesColumn(b) == b.sql.column # NoText /\ b.type # <<>>

\* C12: for every view text holding a dimension or measure block whose sql
\* clause references ${TABLE}.col, parse_view_file yields exactly one field
\* record for the block, with the declared name, the declared type and
\* source_column = col
C12_SourceColumnExtracted ==
    ext.fn = "parse_view_file" =>
        \A n \in DOMAIN ext.file.blocks :
            NamesColumn(ext.file.blocks[n]) =>
                /\ Cardinality(RecordsOf(ext.result, ext.file.blocks[n])) = 1
                /\ \A k \in RecordsOf(ext.result, ext.file.blocks[n]) :
                      /\ FieldsFor(ext.result, ext.file.blocks[n].keyword)[k].field_type
                            = ext.file.blocks[n].type
                      /\ FieldsFor(ext.result, ext.file.blocks[n].keyword)[k].source_column
                            = ext.file.blocks[n].sql.column

\* The defaults of a view without declaration: the stem for the name, None
\* for the table and the description, no field where no block is declared
ViewDefaults(file, view) ==
    /\ ~file.header => view.name = Stem
    /\ view.sql_table_name = NoText
    /\ view.description = NoText
    /\ Len(view.dimensions) + Len(view.measures) = Len(file.blocks)
    /\ \A n \in DOMAIN file.blocks :
          \A k \in RecordsOf(view, file.blocks[n]) :
              /\ file.blocks[n].type = <<>> =>
                    FieldsFor(view, file.blocks[n].keyword)[k].field_type = file.blocks[n].keyword
              /\ file.blocks[n].sql.text = <<>> =>
                    /\ FieldsFor(view, file.blocks[n].keyword)[k].sql_definition = NoText
                    /\ FieldsFor(view, file.blocks[n].keyword)[k].source_column = NoText

\* The defaults of the explores of a model file: no explore where none is
\* declared, no join where none is declared, many_to_one and '' for a join
\* without relationship and without sql_on, no field, no description
ExploreDefaults(file, explores) ==
    /\ DOMAIN explores = {file.explores[k].name : k \in DOMAIN file.explores}
    /\ \A k \in DOMAIN file.explores :
          /\ Len(explores[file.explores[k].name].joins) = Len(file.explores[k].joins)
          /\ explores[file.explores[k].name].fields = <<>>
          /\ explores[file.explores[k].name].description = NoText
          /\ \A n \in DOMAIN file.explores[k].joins :
                /\ file.explores[k].joins[n].relationship = <<>> =>
                      explores[file.explores[k].name].joins[n].relationship = many_to_one
                /\ file.explores[k].joins[n].sql_on = <<>> =>
                      explores[file.explores[k].name].joins[n].sql_on = <<>>

\* The defaults of a dashboard: the stem for the name, the name for the
\* title, no element where none is declared, no filter where none is
\* declared
DashboardDefaults(file, dashboard) ==
    /\ ~file.named => dashboard.name = Stem
    /\ (~file.titled /\ file.elements = <<>>) => dashboard.title = dashboard.name
    /\ Len(dashboard.elements) = Len(file.elements)
    /\ file.elements = <<>> => dashboard.explores = {}
    /\ \A k \in DOMAIN file.elements :
          ~file.elements[k].filters => dashboard.elements[k].filters = <<>>

\* C13: the extractors raise no error on unmatched patterns: each returns
\* its structure with empty lists and default values (the stem for a name,
\* many_to_one for a relationship, '' for sql_on) wherever a pattern does
\* not match, and an entry listing that is no JSON gives the linker an
\* empty list of entries instead of an exception
C13_DefaultsOnUnmatched ==
    /\ ext.fn = "parse_view_file" => ViewDefaults(ext.file, ext.result)
    /\ ext.fn = "parse_explores" => ExploreDefaults(ext.file, ext.result)
    /\ ext.fn = "parse_dashboard_file" => DashboardDefaults(ext.file, ext.result)
    /\ (ext.fn = "get_existing_entries" /\ ext.outcome = "bad_json") =>
          ext.result = [raised |-> FALSE, entries |-> {}]

\* A join declared without relationship and without sql_on has been parsed
C13_Witness ==
    /\ ext.fn = "parse_explores"
    /\ \E k \in DOMAIN ext.file.explores :
          \E n \in DOMAIN ext.file.explores[k].joins :
              /\ ext.file.explores[k].joins[n].relationship = <<>>
              /\ ext.file.explores[k].joins[n].sql_on = <<>>
              /\ ext.result[ext.file.explores[k].name].joins[n].relationship = many_to_one

---------------------------------------------------------------------------
(* Two entry writers at the same time: two script processes call           *)
(* create_dataplex_entry_with_aspects for one fully qualified name, and    *)
(* their gcloud commands and file operations interleave in any order.      *)

\* An invocation before its describe command; tempfile gives each
\* invocation a file name of its own
Invocation(aspect_data, tmp_file_name) ==
    [pc |-> "describe", aspects |-> aspect_data, tmp_file_name |-> tmp_file_name,
     ops |-> <<>>, faults |-> <<>>, created |-> FALSE, result |-> "none"]

InitRace ==
    /\ catalog = <<>>
    /\ tmpFiles = {}
    /\ prev = NoCall
    /\ last = NoCall
    /\ ext = NoCall
    /\ \E c \in IngestCalls, a1 \in AspectData, a2 \in AspectData :
          race = [pc |-> "racing", fqn |-> c.fqn, entry_type |-> c.entry_type,
                  inv |-> <<Invocation(a1, "tmp1.json"), Invocation(a2, "tmp2.json")>>]
    /\ LinkerUnused
    /\ ProcessIdUnused
    /\ LineageUnused

\* "if entry_exists(entry_id): return True" of invocation i
RaceDescribe(i) ==
    /\ race.pc = "racing"
    /\ race.inv[i].pc = "describe"
    /\ \E fault \in Faults :
          LET exists == entry_exists(DescribeOutcome(catalog, EntryIdOf(race.fqn), fault))
              todo == AfterDescribe(exists)
          IN  race' = [race EXCEPT
                  !.inv[i].ops = Append(@, "describe"),
                  !.inv[i].faults = Append(@, fault),
                  !.inv[i].pc = CASE todo = "skip" -> "done"
                                  [] todo = "create" -> "write_tmp"
                                  [] OTHER -> "raised",
                  !.inv[i].result = CASE todo = "skip" -> "True"
                                      [] todo = "create" -> "none"
                                      [] OTHER -> exists]
    /\ UNCHANGED <<catalog, tmpFiles, prev, last, ext, linkerVars, pid, lineageVars>>

\* "with tempfile.NamedTemporaryFile(...) as tmp: json.dump(...)"
RaceWriteTmp(i) ==
    /\ race.pc = "racing"
    /\ race.inv[i].pc = "write_tmp"
    /\ tmpFiles' = WriteTmp(tmpFiles, race.inv[i].tmp_file_name)
    /\ race' = [race EXCEPT !.inv[i].ops = Append(@, "write_tmp"), !.inv[i].pc = "create"]
    /\ UNCHANGED <<catalog, prev, last, ext, linkerVars, pid, lineageVars>>

\* "result = run_gcloud_command(command_args); success = result is not None"
RaceCreate(i) ==
    /\ race.pc = "racing"
    /\ race.inv[i].pc = "create"
    /\ \E fault \in Faults :
          LET outcome == CreateOutcome(catalog, EntryIdOf(race.fqn), fault)
          IN  /\ catalog' = IF outcome = "ok"
                            THEN CatalogAfterCreate(catalog, EntryIdOf(race.fqn),
                                     [fqn |-> race.fqn, entry_type |-> race.entry_type,
                                      aspects |-> FormattedAspects(race.inv[i].aspects)])
                            ELSE catalog
              /\ race' = [race EXCEPT
                      !.inv[i].ops = Append(@, "create"),
                      !.inv[i].faults = Append(@, fault),
                      !.inv[i].created = (outcome = "ok"),
                      !.inv[i].result = CreateResult(run_gcloud_command(outcome)),
                      !.inv[i].pc = "remove_tmp"]
    /\ UNCHANGED <<tmpFiles, prev, last, ext, linkerVars, pid, lineageVars>>

\* "finally: os.remove(tmp_file_name)", and the return
RaceRemoveTmp(i) ==
    /\ race.pc = "racing"
    /\ race.inv[i].pc = "remove_tmp"
    /\ tmpFiles' = RemoveTmp(tmpFiles, race.inv[i].tmp_file_name)
    /\ race' = [race EXCEPT !.inv[i].ops = Append(@, "remove_tmp"), !.inv[i].pc = "done"]
    /\ UNCHANGED <<catalog, prev, last, ext, linkerVars, pid, lineageVars>>

NextRace ==
    \E i \in 1..2 : RaceDescribe(i) \/ RaceWriteTmp(i) \/ RaceCreate(i) \/ RaceRemoveTmp(i)

SpecRace == InitRace /\ [][NextRace]_vars

\* Every gcloud command of both invocations ran without a fault of the
\* environment
RaceUndisturbed ==
    \A i \in 1..2 : \A k \in DOMAIN race.inv[i].faults : race.inv[i].faults[k] = "none"

\* Invocation i created the entry and the other one returned j's way
CreateWon(i) == race.inv[i].created /\ race.inv[i].result = "True"
CreateRefused(j) ==
    /\ ~race.inv[j].created
    /\ race.inv[j].ops = <<"describe", "write_tmp", "create", "remove_tmp">>
    /\ race.inv[j].result = "False"
DescribeSkipped(j) == race.inv[j].ops = <<"describe">> /\ race.inv[j].result = "True"

---------------------------------------------------------------------------
(* The cleanup of the lineage driver                                       *)

\* cleanup_all_processes has returned with this step
CleanupReturned == lin.pc = "cleanup" /\ lin'.pc # "cleanup"

\* The DELETE requests of the cleanup for a process, by their answer
DeletesOf(l, process_id, statuses) ==
    {k \in DOMAIN l.cleaned :
        /\ l.cleaned[k].method = "DELETE"
        /\ l.cleaned[k].process = process_id
        /\ l.cleaned[k].status \in statuses}

FailedDeletes(l) ==
    {k \in DOMAIN l.cleaned :
        l.cleaned[k].method = "DELETE" /\ l.cleaned[k].status \notin {"200", "201"}}

\* C15: cleanup_all_processes lists and deletes every process of the
\* scope: whenever it returns True, every process that was in the service
\* when it was called has been deleted by a DELETE request that succeeded,
\* and it returns False exactly when a DELETE request failed
C15_CleanupDeletesEveryProcess ==
    [][CleanupReturned =>
          /\ lin'.cleanup_success =>
                \A k \in DOMAIN lsvc.processes :
                    /\ DeletesOf(lin', lsvc.processes[k].id, {"200", "201"}) # {}
                    /\ ~HasProcess(lsvc', lsvc.processes[k].id)
          /\ ~lin'.cleanup_success <=> FailedDeletes(lin') # {}]_vars

---------------------------------------------------------------------------
(* The order of the lineage driver's operations                            *)

\* The steps main may take from one position to the next
MainOrder ==
    {<<"start", "cleanup">>, <<"start", "done">>, <<"cleanup", "bq_view">>,
     <<"bq_view", "view_explore">>, <<"view_explore", "explore_dash">>,
     <<"explore_dash", "verify">>, <<"verify", "done">>}

\* A step that sends the requests of the cleanup, creation requests, or
\* the link searches
CleanupRequested == lin'.cleaned # lin.cleaned
CreationRequested == lin'.trace # lin.trace
SearchRequested == lin'.searched # lin.searched

\* A step that takes a process out of the service, or puts a process, a
\* run or an event into it
ProcessDeleted == \E k \in DOMAIN lsvc.processes : ~HasProcess(lsvc', lsvc.processes[k].id)
Created ==
    \/ \E k \in DOMAIN lsvc'.processes : ~HasProcess(lsvc, lsvc'.processes[k].id)
    \/ Len(lsvc'.runs) > Len(lsvc.runs)
    \/ Len(lsvc'.events) > Len(lsvc.events)

\* C16: the order of the lineage driver's external operations is fixed:
\* the deletions of the cleanup come before every creation; the creation
\* starts whatever the cleanup returned; the setup functions run in the
\* order BigQuery to view, view to explore, explore to dashboard, each one
\* whatever the earlier ones returned; the link searches come after all
\* creations
C16_FixedOrderOfOperations ==
    [][/\ lin'.pc # lin.pc => <<lin.pc, lin'.pc>> \in MainOrder
       /\ (CleanupRequested \/ ProcessDeleted) =>
             lin.pc = "cleanup" /\ lin.trace = <<>> /\ lin.results = <<>> /\ ~Created
       /\ (CreationRequested \/ Created) =>
             /\ lin.pc \in {"bq_view", "view_explore", "explore_dash"}
             /\ lin.pc = Phases[Len(lin.results) + 1]
             /\ lin.cleaned # <<>>
             /\ lin.searched = <<>>
             /\ ~ProcessDeleted
       /\ SearchRequested => lin.pc = "verify" /\ Len(lin.results) = 3 /\ lsvc' = lsvc]_vars

\* The cleanup failed, the first two setup functions returned False, and
\* the third one has sent a request
C16_Witness ==
    /\ lin.pc = "explore_dash"
    /\ ~lin.cleanup_success
    /\ lin.results = <<FALSE, FALSE>>
    /\ lin.stage = "run"
    /\ lin.trace # <<>>

---------------------------------------------------------------------------
(* The lineage client on its own: a DataLineageAPI object is built and its *)
(* create operations are called in any order, the service and the network  *)
(* answering as they like                                                  *)

\* The n-th token that gcloud auth print-access-token hands out
Token(n) == <<"ya29", n>>

\* _get_access_token: stdout stripped; CalledProcessError becomes Exception,
\* any other exception of subprocess.run leaves the function as it is
_get_access_token(outcome, n) ==
    CASE outcome = "ok" -> Token(n)
      [] outcome = "empty" -> <<>>
      [] outcome = "exit_nonzero" -> <<"Exception">>
      [] OTHER -> <<"FileNotFoundError">>

\* The header of _make_request with a token that is not the client's
Authorization_Anonymous(access_token) == <<"Bearer", <<>>, "anonymous">>

\* "Authorization": f"Bearer {self.access_token}"
Authorization(access_token) == <<"Bearer", access_token>>

\* What a request can be answered: what the service makes of it (none), a
\* status of its own, or no answer at all
Statuses == {"none", "401", "404", "409", "500", "RequestException"}

ClientEnvs == [get : Statuses, post : Statuses]

InitClient ==
    /\ catalog = <<>>
    /\ IngestUnused
    /\ LinkerUnused
    /\ ProcessIdUnused
    /\ lsvc = EmptyService
    /\ lin = [pc |-> "new", access_token |-> <<>>, issued |-> <<>>, auth |-> {},
              call |-> NoCall]
    /\ pcalls = <<NoCall, NoCall>>

\* api = DataLineageAPI(PROJECT_ID, LOCATION)
ClientNew ==
    /\ lin.pc = "new"
    /\ \E outcome \in TokenOutcomes :
          LET token == _get_access_token(outcome, Len(lin.issued) + 1)
          IN  lin' = IF outcome \in {"ok", "empty"}
                     THEN [lin EXCEPT !.pc = "client", !.access_token = token,
                                      !.issued = Append(@, token)]
                     ELSE [lin EXCEPT !.pc = "failed",
                                      !.call = [fn |-> "__init__", ops |-> <<>>,
                                                result |-> token]]
    /\ UNCHANGED <<catalog, ingestVars, linkerVars, pid, lsvc, pcalls>>

\* api.create_process(process)
ClientCreateProcess ==
    /\ lin.pc = "client"
    /\ lsvc.next <= MaxProcesses
    /\ \E process \in ProcessDefinitions, env \in ClientEnvs :
          LET r == create_process(lsvc, process, env)
          IN  /\ lsvc' = r.svc
              /\ lin' = [lin EXCEPT
                      !.call = [fn |-> "create_process", ops |-> r.call.ops,
                                result |-> r.call.result],
                      !.auth = @ \cup {Authorization(lin.access_token)}]
    /\ UNCHANGED <<catalog, ingestVars, linkerVars, pid, pcalls>>

\* api.create_run(process_name, run) for a process of the service
ClientCreateRun ==
    /\ lin.pc = "client"
    /\ lsvc.next <= MaxProcesses
    /\ \E k \in DOMAIN lsvc.processes, env \in ClientEnvs, now \in Clock :
          LET process_name == ProcessName(lsvc.processes[k].id)
              run == create_transformation_run(process_name, <<"run", "-", Now>>,
                                               lsvc.processes[k].displayName, now)
              r == create_run(lsvc, process_name, run, env)
          IN  /\ lsvc' = r.svc
              /\ lin' = [lin EXCEPT
                      !.call = [fn |-> "create_run", ops |-> r.ops, result |-> r.result],
                      !.auth = @ \cup {Authorization(lin.access_token)}]
    /\ UNCHANGED <<catalog, ingestVars, linkerVars, pid, pcalls>>

NextClient == ClientNew \/ ClientCreateProcess \/ ClientCreateRun

SpecClient == InitClient /\ [][NextClient]_vars

\* C17: the client's bearer token is obtained once, when the client is
\* built, and never changes: every request of the client carries the token
\* of the construction, and no operation, whatever its requests are
\* answered, runs the token command again
C17_TokenObtainedOnce ==
    /\ [](lin.pc = "client" =>
             /\ Len(lin.issued) = 1
             /\ lin.access_token = lin.issued[1]
             /\ \A header \in lin.auth : header = <<"Bearer", lin.issued[1]>>)
    /\ [][lin.pc = "client" =>
             /\ lin'.access_token = lin.access_token
             /\ lin'.issued = lin.issued]_vars

\* A request of the client was answered 401 and the next call still
\* carried the token of the construction
C17_Witness ==
    /\ lin.pc = "client"
    /\ lin.access_token = Token(1)
    /\ lin.auth = {<<"Bearer", Token(1)>>}
    /\ lin.call.fn = "create_run"
    /\ \E i \in DOMAIN lin.call.ops : lin.call.ops[i].status = "401"

\* The requests of the last call of a create operation, by method
CallRequests(method) == {i \in DOMAIN lin.call.ops : lin.call.ops[i].method = method}

IsCreateCall == lin.pc = "client" /\ lin.call.fn \in {"create_process", "create_run"}

\* C19: the lineage client's handling of the HTTP status: 200 and 201 give
\* the body of the answer; 404 to the existence check of create_process and
\* create_run is "not there" and the POST follows; 409 to the POST is an
\* idempotent success, the create operation reporting success; every other
\* status is a failure that gives no result and raises nothing
C19_StatusTaxonomy ==
    IsCreateCall =>
        /\ \A i \in CallRequests("GET") :
              /\ lin.call.ops[i].status \in {"200", "201"} =>
                    lin.call.result # NoName /\ CallRequests("POST") = {}
              /\ lin.call.ops[i].status = "404" => CallRequests("POST") # {}
        /\ \A i \in CallRequests("POST") :
              /\ lin.call.ops[i].status \in {"200", "201"} => lin.call.result # NoName
              /\ lin.call.ops[i].status = "409" => lin.call.result # NoName
              /\ lin.call.ops[i].status \notin {"200", "201", "409"} =>
                    lin.call.result = NoName

---------------------------------------------------------------------------
(* The runs of the lineage driver                                          *)

\* The time that an isoformat text stands for, in seconds since the hour
Seconds(iso) == iso.minute * 60 + iso.second

\* C18: every run definition that create_transformation_run produces has
\* the state COMPLETED and an end time one second after its start time;
\* every run creation request of the driver carries the state COMPLETED, a
\* startTime and an endTime; the driver asks for no run in another state
C18_RunsCompletedOneSecond ==
    /\ \A k \in DOMAIN lin.run :
          /\ lin.run[k].state = "COMPLETED"
          /\ lin.run[k].start_time # NoTime
          /\ lin.run[k].start_time.second \in 0..59
          /\ lin.run[k].end_time.second \in 0..59
          /\ Seconds(lin.run[k].end_time) = Seconds(lin.run[k].start_time) + 1
    /\ \A k \in DOMAIN lin.run_data :
          /\ lin.run_data[k].state = "COMPLETED"
          /\ lin.run_data[k].startTime = lin.run[1].start_time
          /\ lin.run_data[k].endTime = lin.run[1].end_time
          /\ lin.run_data[k].endTime # NoTime
    /\ \A k \in DOMAIN lsvc.runs : lsvc.runs[k].state = "COMPLETED"

\* A run that starts in the last second of a minute has been posted and
\* the service has created it
C18_Witness ==
    /\ lin.pc \in {"bq_view", "view_explore", "explore_dash"}
    /\ lin.stage = "event"
    /\ Len(lin.run_data) = 1
    /\ lin.run_data[1].startTime = isoformat(59)
    /\ lin.run_data[1].endTime = isoformat(60)
    /\ \E k \in DOMAIN lsvc.runs : lsvc.runs[k].process = SplitLast(lin.actual_process_name, "/")

---------------------------------------------------------------------------
(* Failures of the token command and of the network in the linker          *)

\* The call asked for a token and got none
TokenFailed(c) == \E t \in OpsOf(c, "token") : c.ops[t].out # "token"

\* The POST of the call ended in a network exception
PostFailed(c) == \E p \in OpsOf(c, "post") : c.ops[p].out = "RequestException"

\* C20: failures of the token command and of the network raise nothing:
\* when the token command fails, create_entry_link returns False and sends
\* no POST; when the POST fails with a network exception, it returns False
C20_TokenFailureReturnsFalse ==
    IsLinkCall(lcall) =>
        /\ TokenFailed(lcall) => lcall.result = "False" /\ OpsOf(lcall, "post") = {}
        /\ PostFailed(lcall) => lcall.result = "False"

---------------------------------------------------------------------------
(* The documented workflow: setup_2_aspect_types.py, setup_3_entry_types.py, *)
(* ingest_views_only.py, ingest_explores_only.py, ingest_dashboards_only.py  *)

\* The scripts in the order of the documented workflow
Drivers == <<"aspect_types", "entry_types", "views", "explores", "dashboards">>

IsSetup(driver) == driver \in {"aspect_types", "entry_types"}

\* The fully-qualified name an ingestion driver gives an entity
EntityFqn(driver, name) ==
    CASE driver = "views" ->
             generate_custom_fqn("view", LOOKER_INSTANCE_ID, "retail_banking", name)
      [] driver = "explores" -> generate_looker_fqn("explore", "retail_banking", name)
      [] OTHER -> generate_looker_fqn("dashboard", "retail_banking", name)

\* The entry type an ingestion driver passes to the entry writer
EntityType(driver) ==
    CASE driver = "views" -> LookerView
      [] driver = "explores" -> LookerExplore
      [] OTHER -> LookerDashboard

\* aspect_data of an entity: its looker-core aspect, whose id is the name
\* and whose tags tell the kind of entity
CoreAspect(driver, name) == <<"looker-core", name, driver>>

\* What a script works through: the four create_* helpers of a setup
\* script in the order of main; the view files of the two directories in
\* the order of os.listdir; the explores of the model files (a dict, one
\* per name); the dashboard files
Found(driver) ==
    CASE driver = "aspect_types" ->
             {<<"looker-core", "looker-explore-graph", "looker-view-schema", "bq-dependencies">>}
      [] driver = "entry_types" ->
             {<<"looker-dashboard", "looker-look", "looker-explore", "looker-view">>}
      [] driver = "views" ->
             {<<>>, <<"account">>, <<"card">>, <<"account", "card">>, <<"card", "account">>}
      [] driver = "explores" -> {<<>>, <<"account">>, <<"account", "client">>}
      [] OTHER -> {<<>>, <<"customer_account">>}

\* main of a script about to start on its batch
DriverStart(driver, batch) ==
    [fn |-> "main", driver |-> driver, batch |-> batch, pc |-> "loop",
     stage |-> IF driver = "aspect_types" THEN "write_tmp" ELSE "call",
     success_count |-> 0, total_count |-> 0, results |-> <<>>, exits |-> <<>>,
     printed |-> <<>>]

InitIngest ==
    /\ catalog = <<>>
    /\ tmpFiles = {}
    /\ prev = NoCall
    /\ last = NoCall
    /\ ext \in {DriverStart(Drivers[1], batch) : batch \in Found(Drivers[1])}
    /\ race = Idle
    /\ LinkerUnused
    /\ ProcessIdUnused
    /\ LineageUnused

\* What a create command of a setup script writes to standard output when
\* it exits with 0: nothing, or a line of text
Stdouts == {<<>>, <<"Created">>}

\* What one gcloud create command of a setup script does: its exit and its
\* standard output
SetupOutcomes ==
    {[exit |-> "ok", stdout |-> s] : s \in Stdouts}
        \cup {[exit |-> "CalledProcessError", stdout |-> <<>>],
              [exit |-> "FileNotFoundError", stdout |-> <<>>]}

\* run_gcloud_command of the setup scripts: result.stdout on exit 0, None on
\* CalledProcessError (ignore_errors or not); any other exception leaves it
run_gcloud_command_setup(outcome) ==
    CASE outcome.exit = "ok" -> [raised |-> FALSE, value |-> [none |-> FALSE, body |-> outcome.stdout]]
      [] outcome.exit = "CalledProcessError" -> [raised |-> FALSE, value |-> None]
      [] OTHER -> [raised |-> TRUE, value |-> None]

\* create_aspect_type: "return result is not None"
create_aspect_type(result) == ~result.none

\* create_entry_type: "return run_gcloud_command(...)", and "if create_*():" in main
create_entry_type(result) == Truthy(result)

\* What the loop does with the answer of the entry writer: True and False
\* both go on with the next entity; an exception leaves main, which has no
\* try of its own
Continue(result) ==
    CASE result = "True" -> "loop"
      [] result = "False" -> "loop"
      [] OTHER -> "raised"

Working == ext.fn = "main" /\ ext.pc = "loop" /\ Len(ext.results) < Len(ext.batch)

\* create_aspect_type: the metadata template is dumped into a temporary file
AspectTypeWriteTmp ==
    /\ Working
    /\ ext.driver = "aspect_types"
    /\ ext.stage = "write_tmp"
    /\ tmpFiles' = WriteTmp(tmpFiles, "tmp.json")
    /\ ext' = [ext EXCEPT !.stage = "create"]
    /\ UNCHANGED <<catalog, prev, last, race, linkerVars, pid, lineageVars>>

\* create_aspect_type: "try: result = run_gcloud_command(...)"
AspectTypeCreate ==
    /\ Working
    /\ ext.driver = "aspect_types"
    /\ ext.stage = "create"
    /\ \E outcome \in SetupOutcomes :
          ext' = [ext EXCEPT !.stage = "remove_tmp", !.exits = Append(@, outcome)]
    /\ UNCHANGED <<catalog, tmpFiles, prev, last, race, linkerVars, pid, lineageVars>>

\* create_aspect_type: "finally: os.remove(tmp_file_name)"; then the helper
\* returns "result is not None" to main, which counts it, or the exception
\* of the command leaves the helper and main
AspectTypeRemoveTmp ==
    /\ Working
    /\ ext.driver = "aspect_types"
    /\ ext.stage = "remove_tmp"
    /\ tmpFiles' = RemoveTmp(tmpFiles, "tmp.json")
    /\ LET r == run_gcloud_command_setup(ext.exits[Len(ext.exits)])
           counted == ~r.raised /\ create_aspect_type(r.value)
       IN  ext' = [ext EXCEPT
               !.stage = "write_tmp",
               !.results = Append(@, IF r.raised THEN "FileNotFoundError"
                                     ELSE IF counted THEN "True" ELSE "False"),
               !.success_count = IF counted THEN @ + 1 ELSE @,
               !.pc = IF r.raised THEN "raised" ELSE "loop"]
    /\ UNCHANGED <<catalog, prev, last, race, linkerVars, pid, lineageVars>>

\* One create_*_entry_type helper of setup_3_entry_types.py and the
\* "if create_*(): success_count += 1" of main around it
EntryTypeCreate ==
    /\ Working
    /\ ext.driver = "entry_types"
    /\ \E outcome \in SetupOutcomes :
          LET r == run_gcloud_command_setup(outcome)
              counted == ~r.raised /\ create_entry_type(r.value)
          IN  ext' = [ext EXCEPT
                  !.exits = Append(@, outcome),
                  !.results = Append(@, IF r.raised THEN "FileNotFoundError"
                                        ELSE IF counted THEN "True" ELSE "False"),
                  !.success_count = IF counted THEN @ + 1 ELSE @,
                  !.pc = IF r.raised THEN "raised" ELSE "loop"]
    /\ UNCHANGED <<catalog, tmpFiles, prev, last, race, linkerVars, pid, lineageVars>>

\* One turn of the loop of main of an ingestion driver: the next entity of
\* the batch is counted (views and dashboards), its fully-qualified name and
\* aspects are built and the entry writer is called; True adds one to
\* success_count
IngestEntity ==
    /\ Working
    /\ ~IsSetup(ext.driver)
    /\ \E dfault \in Faults :
         LET name == ext.batch[Len(ext.results) + 1]
             entity_fqn == EntityFqn(ext.driver, name)
         IN  \E cfault \in CreateFaults(catalog, entity_fqn, dfault) :
               LET r == create_dataplex_entry_with_aspects(catalog, tmpFiles, entity_fqn,
                            EntityType(ext.driver), CoreAspect(ext.driver, name),
                            dfault, cfault)
               IN  /\ catalog' = r.catalog
                   /\ tmpFiles' = r.tmpFiles
                   /\ last' = r.call
                   /\ ext' = [ext EXCEPT
                         !.total_count = IF ext.driver = "explores" THEN @ ELSE @ + 1,
                         !.success_count = IF r.call.result = "True" THEN @ + 1 ELSE @,
                         !.results = Append(@, r.call.result),
                         !.pc = Continue(r.call.result)]
    /\ UNCHANGED <<prev, race, linkerVars, pid, lineageVars>>

\* The denominator of the printed summary: 4 in the setup scripts,
\* len(all_explores) for the explores, total_count otherwise
Total(d) ==
    CASE IsSetup(d.driver) -> 4
      [] d.driver = "explores" -> Len(d.batch)
      [] OTHER -> d.total_count

\* "Print summary"
PrintSummary ==
    /\ ext.fn = "main"
    /\ ext.pc \in {"loop", "summary"}
    /\ ext.pc = "loop" => Len(ext.results) = Len(ext.batch)
    /\ ext' = [ext EXCEPT !.pc = "done", !.printed = <<ext.success_count, Total(ext)>>]
    /\ UNCHANGED <<catalog, tmpFiles, prev, last, race, linkerVars, pid, lineageVars>>

\* The place of a script in the workflow
Place(driver) == CHOOSE i \in DOMAIN Drivers : Drivers[i] = driver

\* The next script of the workflow is started once the one before has ended;
\* prev keeps how the ingestion driver before it ended
RunNextDriver ==
    /\ ext.fn = "main"
    /\ ext.pc \in {"done", "raised"}
    /\ Place(ext.driver) < Len(Drivers)
    /\ \E batch \in Found(Drivers[Place(ext.driver) + 1]) :
          ext' = DriverStart(Drivers[Place(ext.driver) + 1], batch)
    /\ last' = NoCall
    /\ prev' = IF IsSetup(ext.driver) THEN NoCall ELSE ext
    /\ UNCHANGED <<catalog, tmpFiles, race, linkerVars, pid, lineageVars>>

NextIngest ==
    \/ AspectTypeWriteTmp
    \/ AspectTypeCreate
    \/ AspectTypeRemoveTmp
    \/ EntryTypeCreate
    \/ IngestEntity
    \/ PrintSummary
    \/ RunNextDriver

SpecIngest == InitIngest /\ [][NextIngest]_vars

\* The number of entities for which the creation routine returned value
Returned(results, value) == Cardinality({i \in DOMAIN results : results[i] = value})

\* main of an ingestion driver has ended, with its summary or a traceback
DriverEnded == ext.fn = "main" /\ ~IsSetup(ext.driver) /\ ext.pc \in {"done", "raised"}

\* C21: failures are local in an ingestion driver: when main has ended, it
\* has called the entry writer once for each entity of the batch, in order,
\* whatever the earlier calls did, and it has printed as success count the
\* number of calls that returned True, which is at most the number of
\* entities processed.
C21_FailuresAreLocal ==
    DriverEnded =>
        /\ Len(ext.results) = Len(ext.batch)
        /\ ext.pc = "done"
        /\ ext.printed[1] = Returned(ext.results, "True")
        /\ ext.printed[1] <= ext.printed[2]
        /\ ext.printed[2] = Len(ext.batch)

\* The part of C21 about the failures the entry writer answers with False:
\* an ingestion driver that has printed its summary has called the writer
\* for every entity, and the printed success count is the number of True
\* answers
ReturnedFailuresAreLocal ==
    (DriverEnded /\ ext.pc = "done") =>
        /\ Len(ext.results) = Len(ext.batch)
        /\ ext.printed[1] = Returned(ext.results, "True")
        /\ ext.printed[1] <= ext.printed[2]
        /\ ext.printed[2] = Len(ext.batch)

\* A batch of two whose first creation failed and whose second succeeded
FailedThenCreated ==
    /\ DriverEnded
    /\ ext.pc = "done"
    /\ ext.results = <<"False", "True">>
    /\ ext.printed = <<1, 2>>

---------------------------------------------------------------------------
(* Temporary files                                                         *)

\* create_aspect_type is between the writing of its temporary file and the
\* end of its finally clause
InCreateAspectType == ext.fn = "main" /\ ext.stage \in {"create", "remove_tmp"}

\* create_aspect_type wrote its file, its create command could not be
\* started, and the exception has left the helper and main
AspectTypeRaised ==
    /\ ext.fn = "main"
    /\ ext.driver = "aspect_types"
    /\ ext.pc = "raised"
    /\ ext.exits[Len(ext.exits)].exit = "FileNotFoundError"

\* The entry writer wrote its file and its create command ended as fault
WriterCreated(fault) ==
    /\ IsCall(last)
    /\ last.ops = <<"describe", "write_tmp", "create", "remove_tmp">>
    /\ last.cfault = fault

\* C22: temporary files are short-lived: once create_aspect_type or
\* create_dataplex_entry_with_aspects has been left, by a return or by an
\* exception, whatever its create command did, no temporary file remains,
\* after any sequence of calls.
C22_NoTmpFileLeft == ~InCreateAspectType => tmpFiles = {}

\* The entry writer has returned from a call in which it wrote its file and
\* could not start the create command, after the setup of the aspect types
C22_Witness == WriterCreated("no_cli") /\ last.result = "False" /\ tmpFiles = {}

---------------------------------------------------------------------------
(* Configuration loading (config.py, at import)                            *)

\* The variables config.py reads, in the order of its assignments
ConfigVars ==
    <<"GCP_PROJECT_ID", "GCP_LOCATION", "DATAPLEX_ENTRY_GROUP",
      "LOOKER_INSTANCE_ID", "BQ_DATASET", "DEBUG">>

\* default= and required= of each get_env_var call
ConfigDefault(var_name) ==
    CASE var_name = "GCP_PROJECT_ID" -> None
      [] var_name = "GCP_LOCATION" -> [none |-> FALSE, body |-> <<"eu">>]
      [] var_name = "DATAPLEX_ENTRY_GROUP" -> [none |-> FALSE, body |-> <<"looker">>]
      [] var_name = "LOOKER_INSTANCE_ID" -> [none |-> FALSE, body |-> <<"mylooker">>]
      [] var_name = "BQ_DATASET" -> [none |-> FALSE, body |-> <<"retail_banking">>]
      [] OTHER -> [none |-> FALSE, body |-> <<"false">>]

ConfigRequired(var_name) == var_name # "DEBUG"

\* os.environ: the values of the variables that are set
Setenv(environ, key, value) ==
    [k \in DOMAIN environ \cup {key} |-> IF k = key THEN value ELSE environ[k]]

\* os.getenv(var_name, default)
getenv(environ, var_name, default) ==
    IF <<var_name>> \in DOMAIN environ
    THEN [none |-> FALSE, body |-> environ[<<var_name>>]]
    ELSE default

\* get_env_var: "if required and not value: raise ValueError"
get_env_var(environ, var_name, default, required) ==
    LET value == getenv(environ, var_name, default)
    IN  IF required /\ ~Truthy(value)
        THEN [raised |-> TRUE, value |-> None]
        ELSE [raised |-> FALSE, value |-> value]

\* str.lower() of a value
lower(s) == [i \in DOMAIN s |-> IF s[i] = "TRUE" THEN "true" ELSE s[i]]

\* A split at the last '=' of the line
Split1_Last(s, sep) ==
    LET at == {i \in DOMAIN s : s[i] = sep}
        i == CHOOSE i \in at : \A j \in at : j <= i
    IN  <<SubSeq(s, 1, i - 1), SubSeq(s, i + 1, Len(s))>>

\* line.split('=', 1): the text before the first '=' and the text after it
Split1(s, sep) ==
    LET at == {i \in DOMAIN s : s[i] = sep}
        i == CHOOSE i \in at : \A j \in at : i <= j
    IN  <<SubSeq(s, 1, i - 1), SubSeq(s, i + 1, Len(s))>>

Whitespace == {" ", "\n"}

\* The body of the loop of load_env_file for one line of the file
LoadLine(environ, raw) ==
    LET line == strip(raw, Whitespace)
    IN  IF line # <<>> /\ line[1] # "#" /\ Contains(line, "=")
        THEN Setenv(environ, strip(Split1(line, "=")[1], Whitespace),
                             strip(Split1(line, "=")[2], Whitespace))
        ELSE environ

\* No .env file next to config.py
Absent == [exists |-> FALSE, lines |-> <<>>]

\* load_env_file: when the file exists, its lines in order
RECURSIVE LoadLines(_, _)
LoadLines(environ, lines) ==
    IF lines = <<>> THEN environ
    ELSE LoadLines(LoadLine(environ, Head(lines)), Tail(lines))

load_env_file(environ, file) ==
    IF file.exists THEN LoadLines(environ, file.lines) ELSE environ

\* The assignments of config.py from PROJECT_ID on: the values in order of
\* the variables, up to the first ValueError
RECURSIVE ConfigValues(_, _)
ConfigValues(environ, k) ==
    IF k > Len(ConfigVars) THEN [raised |-> "none", values |-> <<>>]
    ELSE LET r == get_env_var(environ, ConfigVars[k], ConfigDefault(ConfigVars[k]),
                              ConfigRequired(ConfigVars[k]))
             rest == ConfigValues(environ, k + 1)
         IN  IF r.raised THEN [raised |-> ConfigVars[k], values |-> <<>>]
             ELSE [raised |-> rest.raised, values |-> <<r.value.body>> \o rest.values]

\* The lines a .env file is made of
EnvLines ==
    { <<"\n">>,
      <<"#", " ", "GCP_LOCATION", "=", "asia", "\n">>,
      <<" ", "#", "c", "=", "d", "\n">>,
      <<"noequals", "\n">>,
      <<"GCP_LOCATION", "=", "us", "\n">>,
      <<" ", "GCP_LOCATION", " ", "=", " ", "asia", " ", "\n">>,
      <<"DEBUG", "=", "a", "=", "b", "\n">>,
      <<"BQ_DATASET", "=", "\n">> }

\* The .env files: none, an empty one, and those of one or two lines
MaxLines == 2

EnvFiles ==
    {Absent} \cup
    UNION {{[exists |-> TRUE, lines |-> l] : l \in [1..n -> EnvLines]} : n \in 0..MaxLines}

\* What a variable is in the environment of the process: unset, empty, or
\* set to a value
EnvValue(var_name) == IF var_name = "DEBUG" THEN <<"TRUE">> ELSE <<"x">>

Environs ==
    UNION {{[k \in {<<v>> : v \in set} |->
                IF k[1] \in empty THEN <<>> ELSE EnvValue(k[1])] : empty \in SUBSET set} :
           set \in SUBSET {ConfigVars[i] : i \in DOMAIN ConfigVars}}

InitConfig ==
    /\ catalog = <<>>
    /\ tmpFiles = {}
    /\ prev = NoCall
    /\ last = NoCall
    /\ \E environ \in Environs, file \in EnvFiles :
          ext = [fn |-> "import config", pc |-> "load_env_file", file |-> file,
                 before |-> environ, environ |-> environ,
                 raised |-> "none", values |-> <<>>]
    /\ race = Idle
    /\ LinkerUnused
    /\ ProcessIdUnused
    /\ LineageUnused

\* "load_env_file()" at the import of config.py
LoadEnvFile ==
    /\ ext.fn = "import config"
    /\ ext.pc = "load_env_file"
    /\ ext' = [ext EXCEPT !.pc = "get_env_var", !.environ = load_env_file(ext.environ, ext.file)]
    /\ UNCHANGED <<catalog, tmpFiles, prev, last, race, linkerVars, pid, lineageVars>>

\* The assignments PROJECT_ID = get_env_var(...) to DEBUG = ...
LoadConfig ==
    /\ ext.fn = "import config"
    /\ ext.pc = "get_env_var"
    /\ LET r == ConfigValues(ext.environ, 1)
       IN  ext' = [ext EXCEPT
               !.pc = IF r.raised = "none" THEN "imported" ELSE "ValueError",
               !.raised = r.raised,
               !.values = IF r.raised = "none"
                          THEN [r.values EXCEPT ![6] = <<lower(@) = <<"true">>>>]
                          ELSE <<>>]
    /\ UNCHANGED <<catalog, tmpFiles, prev, last, race, linkerVars, pid, lineageVars>>

NextConfig == LoadEnvFile \/ LoadConfig

SpecConfig == InitConfig /\ [][NextConfig]_vars

\* The variable is unset or empty once the .env file has been read
Unset(var_name) == <<var_name>> \notin DOMAIN ext.environ
Empty(var_name) == ~Unset(var_name) /\ ext.environ[<<var_name>>] = <<>>

ConfigEnded == ext.fn = "import config" /\ ext.pc \in {"imported", "ValueError"}

\* C23: configuration loading fails only when GCP_PROJECT_ID is unset or
\* empty; the five other variables are optional: whatever combination of
\* unset, empty and set they are in, loading succeeds, and an unset variable
\* takes its default (eu, looker, mylooker, retail_banking, false).
C23_OnlyProjectIdRequired ==
    ConfigEnded =>
        /\ ext.pc = "ValueError" <=> (Unset("GCP_PROJECT_ID") \/ Empty("GCP_PROJECT_ID"))
        /\ ext.pc = "imported" =>
              /\ Unset("GCP_LOCATION") => ext.values[2] = <<"eu">>
              /\ Unset("DATAPLEX_ENTRY_GROUP") => ext.values[3] = <<"looker">>
              /\ Unset("LOOKER_INSTANCE_ID") => ext.values[4] = <<"mylooker">>
              /\ Unset("BQ_DATASET") => ext.values[5] = <<"retail_banking">>
              /\ Unset("DEBUG") => ext.values[6] = <<FALSE>>

\* The part of C23 that holds: loading fails when GCP_PROJECT_ID is unset
\* or empty, an unset variable takes its default, and DEBUG never fails
DefaultsOfUnset ==
    ConfigEnded =>
        /\ (Unset("GCP_PROJECT_ID") \/ Empty("GCP_PROJECT_ID")) => ext.raised = "GCP_PROJECT_ID"
        /\ ext.raised # "DEBUG"
        /\ ext.pc = "imported" =>
              /\ Unset("GCP_LOCATION") => ext.values[2] = <<"eu">>
              /\ Unset("DATAPLEX_ENTRY_GROUP") => ext.values[3] = <<"looker">>
              /\ Unset("LOOKER_INSTANCE_ID") => ext.values[4] = <<"mylooker">>
              /\ Unset("BQ_DATASET") => ext.values[5] = <<"retail_banking">>
              /\ Unset("DEBUG") => ext.values[6] = <<FALSE>>
        /\ ext.pc = "ValueError" => \E i \in 1..5 : Unset(ConfigVars[i]) \/ Empty(ConfigVars[i])

---------------------------------------------------------------------------
(* The .env file                                                           *)

\* The first character of the line that is no whitespace is a '#'
IsComment(raw) ==
    \E i \in DOMAIN raw :
        /\ raw[i] = "#"
        /\ \A j \in 1..(i - 1) : raw[j] \in Whitespace

\* The place of the first '=' of a line that has one
FirstEquals(raw) == CHOOSE i \in DOMAIN raw : raw[i] = "=" /\ \A j \in 1..(i - 1) : raw[j] # "="

\* A key=value line: neither blank nor a comment, with a '='
IsKeyValue(raw) == ~IsComment(raw) /\ \E i \in DOMAIN raw : raw[i] = "="

KeyOf(raw) == strip(SubSeq(raw, 1, FirstEquals(raw) - 1), Whitespace)
ValueOf(raw) == strip(SubSeq(raw, FirstEquals(raw) + 1, Len(raw)), Whitespace)

\* The key=value lines of the file for a key
LinesFor(lines, key) == {i \in DOMAIN lines : IsKeyValue(lines[i]) /\ KeyOf(lines[i]) = key}

\* The .env file has been read
EnvFileLoaded == ext.fn = "import config" /\ ext.pc # "load_env_file"

\* C24: load_env_file skips blank lines, '#' lines and lines without '=':
\* afterwards the environment differs from the one before exactly by the
\* key=value lines of the file, each key set to the stripped text after the
\* first '=', the last line for a key and the file before the process
\* environment winning; without a file the environment is unchanged.
C24_EnvFileOverrides ==
    EnvFileLoaded =>
        LET lines == ext.file.lines
            keys == {KeyOf(lines[i]) : i \in {j \in DOMAIN lines : IsKeyValue(lines[j])}}
        IN  /\ ~ext.file.exists => ext.environ = ext.before
            /\ DOMAIN ext.environ = DOMAIN ext.before \cup keys
            /\ \A key \in DOMAIN ext.environ :
                  IF key \in keys
                  THEN LET n == CHOOSE i \in LinesFor(lines, key) :
                                    \A j \in LinesFor(lines, key) : j <= i
                       IN  ext.environ[key] = ValueOf(lines[n])
                  ELSE ext.environ[key] = ext.before[key]

\* A file whose two lines set a variable that the process environment has
\* too, the second line with blanks around key and value
C24_Witness ==
    /\ EnvFileLoaded
    /\ <<"GCP_LOCATION">> \in DOMAIN ext.before
    /\ ext.before[<<"GCP_LOCATION">>] = <<"x">>
    /\ ext.file.lines = << <<"GCP_LOCATION", "=", "us", "\n">>,
                           <<" ", "GCP_LOCATION", " ", "=", " ", "asia", " ", "\n">> >>
    /\ ext.environ[<<"GCP_LOCATION">>] = <<"asia">>

\* A file with a comment that holds a '=' and a value that holds a '='
CommentAndEquals ==
    /\ EnvFileLoaded
    /\ ext.file.lines = << <<"#", " ", "GCP_LOCATION", "=", "asia", "\n">>,
                           <<"DEBUG", "=", "a", "=", "b", "\n">> >>
    /\ ext.environ[<<"DEBUG">>] = <<"a", "=", "b">>
    /\ <<"GCP_LOCATION">> \notin DOMAIN ext.environ

---------------------------------------------------------------------------
(* One catalog entry per ingested entity                                   *)

\* The driver printed its summary and every call of the entry writer
\* returned True: no command failed but the describe of an absent entry
Succeeded(d) ==
    /\ d.fn = "main"
    /\ d.pc = "done"
    /\ \A i \in DOMAIN d.batch : d.results[i] = "True"

\* The catalog holds an entry of the driver's entry type under the
\* fully-qualified name of the entity
HasEntry(driver, name) ==
    \E id \in DOMAIN catalog :
        /\ catalog[id].fqn = EntityFqn(driver, name)
        /\ catalog[id].entry_type = EntityType(driver)

\* View ingestion and then explore ingestion have run, every call succeeding
ViewsThenExplores ==
    /\ Succeeded(ext)
    /\ ext.driver = "explores"
    /\ Succeeded(prev)
    /\ prev.driver = "views"

\* C25: every ingested entity gets its own catalog entry: after view
\* ingestion and then explore ingestion against an empty catalog, every
\* call succeeding, the catalog holds a looker-view entry for each view and
\* a looker-explore entry for each explore, a view and an explore of the
\* same name included.
C25_OneEntryPerEntity ==
    ViewsThenExplores =>
        /\ \A i \in DOMAIN prev.batch : HasEntry("views", prev.batch[i])
        /\ \A i \in DOMAIN ext.batch : HasEntry("explores", ext.batch[i])

\* The part of C25 that holds: every view has its entry, and so has every
\* explore that no view shares its name with
EntryUnlessNameShared ==
    ViewsThenExplores =>
        /\ \A i \in DOMAIN prev.batch : HasEntry("views", prev.batch[i])
        /\ \A i \in DOMAIN ext.batch :
              (\A j \in DOMAIN prev.batch : prev.batch[j] # ext.batch[i])
                  => HasEntry("explores", ext.batch[i])

\* Views and explores without a common name, each with its entry
DistinctNamesIngested ==
    /\ ViewsThenExplores
    /\ prev.batch = <<"card">>
    /\ ext.batch = <<"account", "client">>
    /\ Cardinality(DOMAIN catalog) = 3

---------------------------------------------------------------------------
(* The entry ids of the ingestion scripts and of the linker                *)

\* Values of LOOKER_INSTANCE_ID in the configuration
InstanceIds == {<<"mylooker">>, <<"corp">>, <<"corp", ".", "eu">>}

\* "LOOKER_INSTANCE_ID = "mylooker"" of ingest_dashboards_only.py, which
\* does not import it from config
DashboardsInstanceId == <<"mylooker">>

EntityKinds == {"dashboard", "explore", "view"}

\* Names of the relationship tables
EntityNames == {"customer_account", "account", "card_transactions", "district", "loan"}

\* The entry id under which the ingestion script of the kind creates the
\* entry of the entity
CreatedId(instance_id, kind, name) ==
    EntryIdOf(CASE kind = "view" ->
                       generate_custom_fqn_of("view", instance_id, "retail_banking", name)
                [] kind = "explore" ->
                       generate_looker_fqn_of(instance_id, "explore", "retail_banking", name)
                [] OTHER ->
                       generate_looker_fqn_of(DashboardsInstanceId, "dashboard",
                                              "retail_banking", name))

\* The entry ids the linker looks up in its maps for the entity: the keys
\* and values of its two relationship tables, and for a view also view_id
\* of create_view_to_bigquery_links
LookedUpIds(instance_id, kind, name) ==
    IF kind = "view"
    THEN {LookerId(name), ViewId(instance_id, name)}
    ELSE {LookerId(name)}

InitIds ==
    /\ catalog = <<>>
    /\ tmpFiles = {}
    /\ prev = NoCall
    /\ last = NoCall
    /\ \E instance_id \in InstanceIds, kind \in EntityKinds, name \in EntityNames :
          ext = [fn |-> "ids", pc |-> "ingest", instance_id |-> instance_id,
                 kind |-> kind, name |-> name, created |-> <<>>, looked_up |-> {}]
    /\ race = Idle
    /\ LinkerUnused
    /\ ProcessIdUnused
    /\ LineageUnused

\* The ingestion script derives the entry id of the entity
IngestId ==
    /\ ext.fn = "ids"
    /\ ext.pc = "ingest"
    /\ ext' = [ext EXCEPT !.pc = "link",
                          !.created = CreatedId(ext.instance_id, ext.kind, ext.name)]
    /\ UNCHANGED <<catalog, tmpFiles, prev, last, race, linkerVars, pid, lineageVars>>

\* The linker looks the entity up
LookUpId ==
    /\ ext.fn = "ids"
    /\ ext.pc = "link"
    /\ ext' = [ext EXCEPT !.pc = "done",
                          !.looked_up = LookedUpIds(ext.instance_id, ext.kind, ext.name)]
    /\ UNCHANGED <<catalog, tmpFiles, prev, last, race, linkerVars, pid, lineageVars>>

NextIds == IngestId \/ LookUpId

SpecIds == InitIds /\ [][NextIds]_vars

IdsDone == ext.fn = "ids" /\ ext.pc = "done"

\* C26: whatever LOOKER_INSTANCE_ID is configured, the entry ids the linker
\* looks up for a dashboard, an explore or a view of a name are the entry id
\* under which the ingestion script created the entry of that name.
C26_LinkerIdsMatchIngestion ==
    IdsDone => \A id \in ext.looked_up : id = ext.created

\* The part of C26 that holds: with the default instance id, and for
\* dashboards with any instance id, the ids are the same
IdsMatchByDefault ==
    (IdsDone /\ (ext.instance_id = <<"mylooker">> \/ ext.kind = "dashboard"))
        => \A id \in ext.looked_up : id = ext.created

\* A view under the default instance id, looked up under the two ids
DefaultViewLookedUp ==
    /\ IdsDone
    /\ ext.instance_id = <<"mylooker">>
    /\ ext.kind = "view"
    /\ ext.looked_up = {ext.created}

---------------------------------------------------------------------------
(* The linker after the documented workflow                                *)

\* The catalog after an ingestion driver has called the entry writer for
\* the entities of its batch in order, every command answering as the
\* service does
RECURSIVE Ingested(_, _, _)
Ingested(cat, driver, batch) ==
    IF batch = <<>> THEN cat
    ELSE Ingested(create_dataplex_entry_with_aspects(cat, {},
                      EntityFqn(driver, Head(batch)), EntityType(driver),
                      CoreAspect(driver, Head(batch)), "none", "none").catalog,
                  driver, Tail(batch))

\* What the three ingestion drivers find when the workflow is run
WorkflowViews ==
    {<<>>, <<"account">>, <<"district">>, <<"account", "district">>,
     <<"district", "loan">>, <<"account", "district", "loan">>}
WorkflowExplores == {<<>>, <<"account">>, <<"branches">>, <<"account", "branches">>}
WorkflowDashboards == {<<>>, <<"customer_account">>}

\* The catalogs the workflow leaves: views, then explores, then dashboards
\* ingested into the entry group, which the setup scripts created empty
WorkflowCatalogs ==
    {Ingested(Ingested(Ingested(<<>>, "views", v), "explores", e), "dashboards", d) :
        v \in WorkflowViews, e \in WorkflowExplores, d \in WorkflowDashboards}

InitWorkflow ==
    /\ catalog \in WorkflowCatalogs
    /\ IngestUnused
    /\ ProcessIdUnused
    /\ LineageUnused
    /\ lk = LinkerStart
    /\ links = <<>>
    /\ lcall = NoCall

SpecWorkflow == InitWorkflow /\ [][NextLinker]_vars

\* The rows of the view-to-table mapping whose view has been ingested
MappedViews ==
    {i \in DOMAIN view_table_mappings :
        LET view_id == ViewPairs(view_table_mappings)[i][1]
        IN  view_id \in DOMAIN catalog /\ catalog[view_id].entry_type = LookerView}

\* create_view_to_bigquery_links has returned
ViewLinksReturned == lk.pc # "idle" /\ lk.ret["v2bq"] # NotCalled

\* C27: after the documented workflow, every call succeeding, the linker
\* creates a maps_to link from each ingested view of its view-to-table
\* mapping to the entry of the view's BigQuery table:
\* create_view_to_bigquery_links returns the number of such views.
C27_ViewsLinkedToTables ==
    ViewLinksReturned =>
        /\ lk.ret["v2bq"] = <<Cardinality(MappedViews)>>
        /\ \A i \in MappedViews :
              \E k \in DOMAIN links :
                  /\ links[k].source = ViewPairs(view_table_mappings)[i][1]
                  /\ links[k].target = ViewPairs(view_table_mappings)[i][2]
                  /\ links[k].entryLinkType = "definition"

\* What the linker does after the workflow, whatever its commands and
\* requests are answered: no link to a BigQuery table is created, and
\* create_view_to_bigquery_links returns 0
NoLinkToTable ==
    /\ \A k \in DOMAIN links : links[k].entryLinkType # "definition"
    /\ ViewLinksReturned => lk.ret["v2bq"] = <<0>>

\* Two mapped views were ingested, the linker attempted a link for each
\* and found no entry for the table
MappedViewsSkipped ==
    /\ ViewLinksReturned
    /\ Cardinality(MappedViews) = 2
    /\ Cardinality({a \in lk.attempted : a.fn = "v2bq"}) = 2
    /\ IsLinkCall(lcall)
    /\ lcall.link_type = "maps_to"
    /\ Len(lcall.ops) = 2
    /\ lcall.ops[1].out = "True"
    /\ lcall.ops[2].out = "False"

---------------------------------------------------------------------------
(* The count of the setup scripts                                          *)

\* main of a setup script has printed "Created n/4"
SetupPrinted(driver) == ext.fn = "main" /\ ext.driver = driver /\ ext.pc = "done"

\* The create commands of the script that exited with 0
Exited0 == {i \in DOMAIN ext.exits : ext.exits[i].exit = "ok"}

\* C28: in the setup scripts for aspect types and entry types the printed
\* count is the number of create commands that exited successfully,
\* whatever they wrote to standard output, nothing included.
C28_CountIsSuccessfulCommands ==
    (SetupPrinted("aspect_types") \/ SetupPrinted("entry_types"))
        => ext.printed = <<Cardinality(Exited0), 4>>

\* What holds: the aspect types are counted by the exit of their commands,
\* the entry types by exit and output: a command that exited with 0 and
\* printed nothing is not counted
CountedByExitOrOutput ==
    /\ SetupPrinted("aspect_types") => ext.printed = <<Cardinality(Exited0), 4>>
    /\ SetupPrinted("entry_types") =>
          ext.printed = <<Cardinality({i \in Exited0 : ext.exits[i].stdout # <<>>}), 4>>

\* Four entry types created by commands that printed nothing
CreatedButNotCounted ==
    /\ SetupPrinted("entry_types")
    /\ Cardinality(Exited0) = 4
    /\ ext.printed = <<0, 4>>

---------------------------------------------------------------------------
(* The summary of the lineage driver                                       *)

\* The lineage events the service holds more at the end of the k-th setup
\* function than at its start
EventsCreated(k) == lin.events_at[k + 1] - lin.events_at[k]

\* The lineage events the mapping tables ask for
EventsAskedFor ==
    Len(bigquery_view_mappings) + Len(view_explore_mappings[1].view_names)
        + Len(explore_dashboard_mappings[1].dashboard_names)

\* C29: each lineage setup function returns True exactly when at least one
\* lineage event of its phase was created, and the driver prints its SETUP
\* COMPLETE summary exactly when the three returned True: it reports
\* completion also when a mapping failed, and failure only when a whole
\* phase created nothing.
C29_SummaryFromPhases ==
    lin.pc # "idle" =>
        /\ \A k \in DOMAIN lin.results : lin.results[k] <=> EventsCreated(k) > 0
        /\ lin.summary = "SETUP COMPLETE" <=>
              /\ lin.pc = "done"
              /\ Len(lin.results) = 3
              /\ \A k \in 1..3 : EventsCreated(k) > 0
        /\ lin.summary = "SOME STEPS FAILED" <=>
              /\ lin.pc = "done"
              /\ Len(lin.results) = 3
              /\ \E k \in 1..3 : EventsCreated(k) = 0

\* The driver has reported completion with one lineage event in each
\* phase, fewer than the mapping tables ask for
C29_Witness ==
    /\ lin.pc = "done"
    /\ lin.summary = "SETUP COMPLETE"
    /\ \A k \in 1..3 : EventsCreated(k) = 1
    /\ Len(lsvc.events) < EventsAskedFor

\* The driver has reported a failure after a phase that created nothing
FailureReported ==
    /\ lin.pc = "done"
    /\ lin.summary = "SOME STEPS FAILED"
    /\ EventsCreated(1) = 2
    /\ EventsCreated(2) = 0
    /\ EventsCreated(3) = 1

---------------------------------------------------------------------------
(* parse_entries_by_type on its own                                        *)

\* An entry as gcloud lists it: entry id, the project and the id of its
\* entry type; entry.get gives "" for a field the entry lacks
ListedEntry(entry_id, project, entry_type) ==
    [name |-> IF entry_id = <<>> THEN <<>>
              ELSE <<"projects", "/", project, "/", "locations", "/", "eu", "/",
                     "entryGroups", "/", "looker", "/", "entries", "/">> \o entry_id,
     entryType |-> IF entry_type = <<>> THEN <<>>
                   ELSE <<"projects", "/">> \o project
                            \o <<"/", "locations", "/", "eu", "/", "entryTypes", "/">>
                            \o entry_type,
     fullyQualifiedName |-> <<"fqn", ":">> \o entry_id]

\* Entries of the three Looker types, of another type, without a type, of
\* a type whose name holds two of the three, and of a project whose name
\* holds one
ListedPool ==
    { ListedEntry(<<"d1">>, <<PROJECT_ID>>, LookerDashboard),
      ListedEntry(<<"e1">>, <<PROJECT_ID>>, LookerExplore),
      ListedEntry(<<"v1">>, <<PROJECT_ID>>, LookerView),
      ListedEntry(<<"t1">>, <<PROJECT_ID>>, <<"bigquery", "-", "table">>),
      ListedEntry(<<"n1">>, <<PROJECT_ID>>, <<>>),
      ListedEntry(<<"x1">>, <<PROJECT_ID>>, LookerView \o <<"-">> \o LookerExplore),
      ListedEntry(<<"v2">>, LookerDashboard \o <<"-", "prod">>, LookerView) }

InitEntries ==
    /\ catalog = <<>>
    /\ tmpFiles = {}
    /\ prev = NoCall
    /\ last = NoCall
    /\ \E entries \in SUBSET ListedPool :
          ext = [fn |-> "parse_entries_by_type", pc |-> "call", entries |-> entries,
                 dashboards |-> {}, explores |-> {}, views |-> {}]
    /\ race = Idle
    /\ LinkerUnused
    /\ ProcessIdUnused
    /\ LineageUnused

\* dashboards, explores, views = parse_entries_by_type(entries)
ParseEntries ==
    /\ ext.fn = "parse_entries_by_type"
    /\ ext.pc = "call"
    /\ LET l == parse_entries_by_type(ext.entries)
       IN  ext' = [ext EXCEPT !.pc = "returned", !.dashboards = l.dashboards,
                              !.explores = l.explores, !.views = l.views]
    /\ UNCHANGED <<catalog, tmpFiles, prev, last, race, linkerVars, pid, lineageVars>>

NextEntries == ParseEntries

SpecEntries == InitEntries /\ [][NextEntries]_vars

\* The lists that hold the entry, under its id and fully-qualified name
ListsOf(entry) ==
    LET placed == [id |-> SplitLast(entry.name, "/"), fqn |-> entry.fullyQualifiedName]
    IN  (IF placed \in ext.dashboards THEN {"dashboards"} ELSE {})
            \cup (IF placed \in ext.explores THEN {"explores"} ELSE {})
            \cup (IF placed \in ext.views THEN {"views"} ELSE {})

\* The list of the first of the three type names that the entry type holds
ListFor(entry) ==
    CASE HasSub(entry.entryType, <<"looker", "-", "dashboard">>) -> {"dashboards"}
      [] HasSub(entry.entryType, <<"looker", "-", "explore">>) -> {"explores"}
      [] HasSub(entry.entryType, <<"looker", "-", "view">>) -> {"views"}
      [] OTHER -> {}

EntriesParsed == ext.fn = "parse_entries_by_type" /\ ext.pc = "returned"

\* C30: parse_entries_by_type partitions the listed entries: each entry is
\* in the list of the first of looker-dashboard, looker-explore and
\* looker-view that its entryType contains and in no other, in no list when
\* it contains none; it is placed under the last '/'-segment of its name;
\* the three lists together hold no more entries than were listed.
C30_EntriesPartitioned ==
    EntriesParsed =>
        /\ \A entry \in ext.entries : ListsOf(entry) = ListFor(entry)
        /\ \A placed \in ext.dashboards \cup ext.explores \cup ext.views :
              \E entry \in ext.entries :
                  /\ placed.id = SplitLast(entry.name, "/")
                  /\ placed.fqn = entry.fullyQualifiedName
        /\ Cardinality(ext.dashboards) + Cardinality(ext.explores) + Cardinality(ext.views)
              <= Cardinality(ext.entries)

\* All the entries of the pool listed: two dashboards, of which one is a
\* view of a project named after a type, two explores and a view
C30_Witness ==
    /\ EntriesParsed
    /\ ext.entries = ListedPool
    /\ {p.id : p \in ext.dashboards} = {<<"d1">>, <<"v2">>}
    /\ {p.id : p \in ext.explores} = {<<"e1">>, <<"x1">>}
    /\ {p.id : p \in ext.views} = {<<"v1">>}

=============================================================================
